---- MODULE Spec2Model ----
(***************************************************************************)
(* Model of the real-time path of zeek_to_nslkdd_v2.py: the poll loop      *)
(* monitor_real_time_logs, the incremental reader                          *)
(* extract_real_time_connection_data, the position ledger kept in          *)
(* zeek_log_positions.json and the CSV appender.                           *)
(*                                                                         *)
(* A log file is a sequence of lines.  A line is a record                  *)
(*   [kind |-> "fields" | "comment" | "data" | "garbage", tok |-> tokens]  *)
(* where tok is the tab-separated token list and a token is a sequence of  *)
(* characters.  A "garbage" line holds bytes that are not valid UTF-8:     *)
(* decoding it raises inside the read loop.                                *)
(***************************************************************************)
EXTENDS Integers, Sequences, FiniteSets, TLC

\* ---------------------------------------------------------------- bounds
MaxLines == 3        \* longest conn.log, in lines
MaxProtoLines == 2   \* longest protocol log, in lines
MaxChanges == 3      \* file changes (append, create, remove) in one run
MaxRows == 3         \* longest output CSV, in data rows
StaleOffset == 200   \* an offset left in the ledger file by an earlier run

\* ------------------------------------------------------ program constants
Tolerance == 100     \* verify_file_positions: margin in bytes
EmptyLimit == 3      \* consecutive empty scans before the full reset

ConnLog == "conn.log"
HttpLog == "http.log"
WeirdLog == "weird.log"
LogFiles == {ConnLog, HttpLog}
RecognizedServices == {<<"http">>, <<"dns">>, <<"ssh">>, <<"ssl">>, <<"ftp">>, <<"smtp">>}

None == <<"None">>                                \* Python's None
Dash == <<"-">>                                   \* Zeek's missing value
NoHeader == <<>>                                  \* header = None

Digits == {"0", "1", "2", "3", "4", "5", "6", "7", "8", "9"}

\* ------------------------------------------------------------ the lines
FieldsLine == [kind |-> "fields", tok |-> << <<"ts">>, <<"uid">> >>]
GarbageLine == [kind |-> "garbage", tok |-> <<>>]
DataLine(ts, uid) == [kind |-> "data", tok |-> <<ts, uid>>]

TsGood == <<"1">>          \* "1": accepted by the validation, a float
TsDashed == <<"1", "-">>   \* "1-": accepted by the validation, not a float
UidA == <<"a">>
UidB == <<"b">>

\* Lines the packet-inspection tool (or a disk fault) appends to a log.
ConnAppend == {DataLine(TsGood, UidA), DataLine(TsDashed, UidB), GarbageLine}
ProtoAppend == {DataLine(TsGood, UidA), DataLine(TsGood, UidB), GarbageLine}
Appendable(f) == IF f = ConnLog THEN ConnAppend ELSE ProtoAppend
MaxLen(f) == IF f = ConnLog THEN MaxLines ELSE MaxProtoLines

RECURSIVE Contents(_, _)
Contents(f, n) ==
    IF n = 1 THEN {<<FieldsLine>>}
    ELSE LET shorter == Contents(f, n - 1)
         IN shorter \cup {Append(c, l) : c \in {s \in shorter : Len(s) = n - 1},
                                          l \in Appendable(f)}

\* ------------------------------------------------------ Python helpers
Truthy(v) == v # None /\ v # <<>>

\* dict.get(key) with the default None
Get(rec, key) == IF key \in DOMAIN rec THEN rec[key] ELSE None

\* str.isdigit(): non-empty and only digits
IsDigit(s) == Len(s) > 0 /\ \A i \in 1..Len(s) : s[i] \in Digits

\* str.replace(ch, '')
RECURSIVE Strip(_, _)
Strip(s, ch) ==
    IF s = <<>> THEN <<>>
    ELSE IF Head(s) = ch THEN Strip(Tail(s), ch)
    ELSE <<Head(s)>> \o Strip(Tail(s), ch)

\* the timestamp validation of the ingestion loops
TsValid(ts) ==
    /\ Truthy(ts)
    /\ \A i \in 1..Len(ts) : ts[i] # "NUL"
    /\ IsDigit(Strip(Strip(ts, "."), "-"))

\* float(ts) succeeds: [-]digits[.digits] or [-].digits
IsFloat(ts) ==
    LET body == IF ts # <<>> /\ Head(ts) = "-" THEN Tail(ts) ELSE ts
        dots == {i \in 1..Len(body) : body[i] = "."}
    IN /\ Cardinality(dots) <= 1
       /\ IsDigit(Strip(body, "."))
       /\ \A i \in 1..Len(body) : body[i] \in Digits \cup {"."}

\* float(ts) in tenths of a second (timestamps carry at most one decimal)
DigitSeq == <<"0", "1", "2", "3", "4", "5", "6", "7", "8", "9">>
DigitVal(d) == (CHOOSE n \in 1..10 : DigitSeq[n] = d) - 1

RECURSIVE IntVal(_)
IntVal(s) == IF s = <<>> THEN 0 ELSE 10 * IntVal(SubSeq(s, 1, Len(s) - 1)) + DigitVal(s[Len(s)])

FloatTenths(ts) ==
    LET neg == ts # <<>> /\ Head(ts) = "-"
        body == IF neg THEN Tail(ts) ELSE ts
        dots == {i \in 1..Len(body) : body[i] = "."}
        dot == IF dots = {} THEN Len(body) + 1 ELSE CHOOSE i \in dots : TRUE
        whole == SubSeq(body, 1, dot - 1)
        frac == SubSeq(body, dot + 1, Len(body))
        mag == 10 * IntVal(whole) + (IF frac = <<>> THEN 0 ELSE DigitVal(frac[1]))
    IN IF neg THEN 0 - mag ELSE mag

\* get_timestamp: the sort key of compute_nslkdd_features
get_timestamp(conn) ==
    IF Truthy(conn.ts) /\ IsFloat(conn.ts) THEN FloatTenths(conn.ts) ELSE 0

\* sorted(..., key=get_timestamp): stable
RECURSIVE InsertSorted(_, _)
InsertSorted(sorted, conn) ==
    IF sorted = <<>> THEN <<conn>>
    ELSE IF get_timestamp(sorted[Len(sorted)]) <= get_timestamp(conn)
         THEN Append(sorted, conn)
         ELSE Append(InsertSorted(SubSeq(sorted, 1, Len(sorted) - 1), conn),
                     sorted[Len(sorted)])

RECURSIVE sorted_connections(_)
sorted_connections(conns) ==
    IF conns = <<>> THEN <<>>
    ELSE InsertSorted(sorted_connections(SubSeq(conns, 1, Len(conns) - 1)),
                      conns[Len(conns)])

\* os.path.getsize: the tokens, the tabs between them and the newline; the
\* "#fields" tag and its tab; one bad byte for a line that does not decode
RECURSIVE TokBytes(_)
TokBytes(tok) ==
    IF tok = <<>> THEN 0 ELSE Len(Head(tok)) + 1 + TokBytes(Tail(tok))

LineBytes(line) ==
    IF line.kind = "garbage" THEN 2
    ELSE IF line.kind = "fields" THEN 8 + TokBytes(line.tok)
    ELSE IF line.tok = <<>> THEN 1 ELSE TokBytes(line.tok)

RECURSIVE FileSize(_)
FileSize(lines) ==
    IF lines = <<>> THEN 0 ELSE LineBytes(Head(lines)) + FileSize(Tail(lines))

\* ------------------------------------------------------------ the parser
\* log_file.split('.')[0]
LogType(f) ==
    IF f = ConnLog THEN <<"conn">>
    ELSE IF f = WeirdLog THEN <<"weird">>
    ELSE <<"http">>
ProtoTypes ==
    {LogType(f) : f \in (LogFiles \cup {WeirdLog}) \ {ConnLog}}
        \cup {<<"ssh">>, <<"ftp">>, <<"notice">>}

\* record = {field: value}: '-' and the fields past the last token are None
MakeRecord(header, values) ==
    [field \in {header[i] : i \in 1..Len(header)} |->
        LET i == CHOOSE j \in 1..Len(header) :
                    /\ header[j] = field
                    /\ \A k \in 1..Len(header) : header[k] = field => k <= j
        IN IF i <= Len(values)
           THEN (IF values[i] = Dash THEN None ELSE values[i])
           ELSE None]

\* dict assignment d[key] = value
Put(d, key, value) ==
    [k \in DOMAIN d \cup {key} |-> IF k = key THEN value ELSE d[k]]

IndexOf(conns, uid) ==
    IF \E i \in 1..Len(conns) : conns[i].uid = uid
    THEN CHOOSE i \in 1..Len(conns) : conns[i].uid = uid
    ELSE 0

\* self.connections[uid] = {...}: a known UID keeps its place and is overwritten
SetConnection(conns, conn) ==
    LET i == IndexOf(conns, conn.uid)
    IN IF i = 0 THEN Append(conns, conn) ELSE [conns EXCEPT ![i] = conn]

NewConnection(record) ==
    [uid |-> record[<<"uid">>],
     ts |-> Get(record, <<"ts">>),
     orig_h |-> Get(record, <<"id.orig_h">>),
     resp_h |-> Get(record, <<"id.resp_h">>),
     service |-> Get(record, <<"service">>),
     conn_state |-> Get(record, <<"conn_state">>),
     proto |-> Get(record, <<"proto">>),
     duration |-> Get(record, <<"duration">>),
     orig_bytes |-> Get(record, <<"orig_bytes">>),
     resp_bytes |-> Get(record, <<"resp_bytes">>),
     enrich |-> [t \in ProtoTypes |-> <<>>]]

\* The loop over the lines first..last of conn.log.
RECURSIVE ConnLoop(_, _, _, _, _, _)
ConnLoop(lines, first, last, header, conns, n) ==
    IF first > last THEN [connections |-> conns, new_connections |-> n]
    ELSE LET line == lines[first]
             record == MakeRecord(header, line.tok)
         IN IF line.kind = "comment"
            THEN ConnLoop(lines, first + 1, last, header, conns, n)
            ELSE IF line.kind = "fields"
            THEN ConnLoop(lines, first + 1, last, line.tok, conns, n)
            ELSE IF header = NoHeader
            THEN ConnLoop(lines, first + 1, last, header, conns, n)
            ELSE IF /\ Len(line.tok) > 1
                    /\ <<"uid">> \in DOMAIN record
                    /\ Truthy(record[<<"uid">>])
                    /\ TsValid(Get(record, <<"ts">>))
            THEN ConnLoop(lines, first + 1, last, header,
                          SetConnection(conns, NewConnection(record)), n + 1)
            ELSE ConnLoop(lines, first + 1, last, header, conns, n)

EnrichOnce(conns, log_type, record) ==
    LET i == IndexOf(conns, record[<<"uid">>])
        seen == \E k \in 1..Len(conns[i].enrich[log_type]) :
                    conns[i].enrich[log_type][k] = record
    IN IF i = 0 THEN conns
       ELSE [conns EXCEPT
               ![i].enrich[log_type] = IF seen THEN @ ELSE Append(@, record),
               ![i].service = IF ~Truthy(@) /\ log_type \in RecognizedServices
                              THEN log_type ELSE @]

\* self.connections[uid][log_type].append(record), and the service default
Enrich(conns, log_type, record) ==
    LET i == IndexOf(conns, record[<<"uid">>])
    IN IF i = 0 THEN conns
       ELSE [conns EXCEPT
               ![i].enrich[log_type] = Append(@, record),
               ![i].service = IF ~Truthy(@) /\ log_type \in RecognizedServices
                              THEN log_type ELSE @]

\* The loop over the lines first..last of a protocol log.
RECURSIVE ProtoLoop(_, _, _, _, _, _)
ProtoLoop(lines, first, last, header, log_type, conns) ==
    IF first > last THEN conns
    ELSE LET line == lines[first]
             record == MakeRecord(header, line.tok)
         IN IF line.kind = "comment"
            THEN ProtoLoop(lines, first + 1, last, header, log_type, conns)
            ELSE IF line.kind = "fields"
            THEN ProtoLoop(lines, first + 1, last, line.tok, log_type, conns)
            ELSE IF header = NoHeader
            THEN ProtoLoop(lines, first + 1, last, header, log_type, conns)
            ELSE IF /\ Len(line.tok) > 1
                    /\ <<"uid">> \in DOMAIN record
                    /\ Truthy(record[<<"uid">>])
            THEN ProtoLoop(lines, first + 1, last, header, log_type,
                           Enrich(conns, log_type, record))
            ELSE ProtoLoop(lines, first + 1, last, header, log_type, conns)

\* The first line whose bytes do not decode (0: the file decodes).
FirstGarbage(lines) ==
    IF \E i \in 1..Len(lines) : lines[i].kind = "garbage"
    THEN CHOOSE i \in 1..Len(lines) :
            /\ lines[i].kind = "garbage"
            /\ \A j \in 1..(i - 1) : lines[j].kind # "garbage"
    ELSE 0

Raises(lines) == FirstGarbage(lines) # 0

\* The last line the read loop is handed before it ends or raises.  The text
\* layer decodes a buffer at a time and a line of the model fills a buffer:
\* the lines before the bad bytes are delivered, then the error is raised.
\* Skipping the lines already read decodes them too.
Delivered(lines, start) ==
    LET g == FirstGarbage(lines)
    IN IF g = 0 THEN Len(lines)
       ELSE IF g <= start THEN start
       ELSE g - 1

start_line(positions, f) == IF f \in DOMAIN positions THEN positions[f] ELSE 0

\* --------------------------------------------------- the feature engine
Window == 20   \* the trailing window of 2 seconds, in tenths of a second

\* dict.get(key, [])
Lookup(d, key) == IF key \in DOMAIN d THEN d[key] ELSE <<>>

\* d[key].append(conn), the list created when the key is new
AppendTo(d, key, conn) == Put(d, key, Append(Lookup(d, key), conn))

InWindowNoFloor(c_ts, current_ts) == c_ts <= current_ts

\* ts >= current_ts - 2 and ts <= current_ts
InWindow(c_ts, current_ts) == c_ts >= current_ts - Window /\ c_ts <= current_ts

\* host_connections after the update made for conn by the main loop
hosts_after(conn, host_connections) ==
    IF Truthy(conn.orig_h) THEN AppendTo(host_connections, conn.orig_h, conn)
    ELSE host_connections

compute_same_host_count(conn, host_connections) ==
    IF ~Truthy(conn.ts) \/ ~Truthy(conn.resp_h) THEN 0
    ELSE LET current_ts == get_timestamp(conn)
             same(c) == /\ c.resp_h = conn.resp_h
                        /\ InWindow(get_timestamp(c), current_ts)
         IN Len(SelectSeq(Lookup(host_connections, conn.orig_h), same))

\* current_ts = float(conn['ts']) raises ValueError
SrvRaises(conn) ==
    Truthy(conn.ts) /\ Truthy(conn.service) /\ ~IsFloat(conn.ts)

\* srv_connections after compute_same_service_count has run for conn
srvs_after(conn, srv_connections) ==
    IF ~Truthy(conn.ts) \/ ~Truthy(conn.service) THEN srv_connections
    ELSE AppendTo(srv_connections, conn.service, conn)

\* the value compute_same_service_count returns, read off the updated index
compute_same_service_count(conn, srv_connections) ==
    IF ~Truthy(conn.ts) \/ ~Truthy(conn.service) THEN 0
    ELSE LET current_ts == FloatTenths(conn.ts)
             same(c) == InWindow(FloatTenths(c.ts), current_ts)
         IN Len(SelectSeq(srvs_after(conn, srv_connections)[conn.service], same))

\* a rate is the quotient num / den of two counts; sum(1 for c in list if
\* ...) is the length of the filtered list
ZeroRate == [num |-> 0, den |-> 1]

RateOf(list, state) ==
    LET hit(c) == c.conn_state = state
    IN [num |-> Len(SelectSeq(list, hit)), den |-> Len(list)]

compute_error_rates(conn, host_connections, srv_connections) ==
    IF ~Truthy(conn.ts) \/ ~Truthy(conn.orig_h)
    THEN [serror_rate |-> ZeroRate, srv_serror_rate |-> ZeroRate,
          rerror_rate |-> ZeroRate]
    ELSE LET current_ts == get_timestamp(conn)
             host(c) == /\ c.resp_h = conn.resp_h
                        /\ InWindow(get_timestamp(c), current_ts)
             srv(c) == InWindow(get_timestamp(c), current_ts)
             same_host_conns == SelectSeq(Lookup(host_connections, conn.orig_h), host)
             same_srv_conns == SelectSeq(Lookup(srv_connections, conn.service), srv)
         IN [serror_rate |-> IF same_host_conns # <<>>
                             THEN RateOf(same_host_conns, <<"S0">>) ELSE ZeroRate,
             srv_serror_rate |-> IF same_srv_conns # <<>>
                                 THEN RateOf(same_srv_conns, <<"S0">>) ELSE ZeroRate,
             rerror_rate |-> IF same_host_conns # <<>>
                             THEN RateOf(same_host_conns, <<"REJ">>) ELSE ZeroRate]

\* ------------------------------------------------- the basic features
\* a piece of text occurs in a value: the value is a sequence of pieces
Has(value, piece) ==
    value # None /\ \E i \in 1..Len(value) : value[i] = piece

\* str.lower(), piece by piece
LowerPiece(piece) ==
    IF piece = "TCP" THEN "tcp"
    ELSE IF piece = "UDP" THEN "udp"
    ELSE IF piece = "ICMP" THEN "icmp"
    ELSE IF piece = "Frag" THEN "frag"
    ELSE IF piece = "Exploit" THEN "exploit"
    ELSE piece
Lower(value) == [i \in 1..Len(value) |-> LowerPiece(value[i])]

\* self.service_mapping
service_mapping ==
    ( <<"dns">> :> <<"domain">> @@ <<"http">> :> <<"http">>
      @@ <<"https">> :> <<"http_443">> @@ <<"ssh">> :> <<"ssh">>
      @@ <<"ftp">> :> <<"ftp">> @@ <<"ftp-data">> :> <<"ftp_data">>
      @@ <<"smtp">> :> <<"smtp">> @@ <<"pop3">> :> <<"pop_3">>
      @@ <<"imap">> :> <<"imap4">> @@ <<"telnet">> :> <<"telnet">>
      @@ <<"nntp">> :> <<"nntp">> @@ <<"irc">> :> <<"IRC">>
      @@ <<"whois">> :> <<"whois">> @@ <<"ssl">> :> <<"private">>
      @@ <<"dhcp">> :> <<"other">> @@ <<"ntp">> :> <<"ntp_u">>
      @@ <<"ldap">> :> <<"ldap">> @@ <<"finger">> :> <<"finger">> )

\* self.flag_mapping
flag_mapping ==
    [state \in {<<"S0">>, <<"SF">>, <<"REJ">>, <<"S1">>, <<"S2">>, <<"S3">>,
                <<"RSTO">>, <<"RSTR">>, <<"RSTOS0">>, <<"SH">>, <<"OTH">>}
        |-> state]

\* mapping.get(key, default)
GetOr(mapping, key, default) ==
    IF key \in DOMAIN mapping THEN mapping[key] ELSE default

\* the service without its translation
service_untranslated(conn) ==
    IF Truthy(conn.service) THEN conn.service ELSE <<"other">>

\* nslkdd_record['service']
service_of(conn) ==
    GetOr(service_mapping,
          IF Truthy(conn.service) THEN conn.service ELSE <<"other">>,
          <<"other">>)

\* nslkdd_record['flag']
flag_of(conn) ==
    GetOr(flag_mapping,
          IF Truthy(conn.conn_state) THEN conn.conn_state ELSE <<"OTH">>,
          <<"OTH">>)

\* nslkdd_record['protocol_type']
protocol_type_of(conn) ==
    LET proto == IF Truthy(conn.proto) THEN Lower(conn.proto) ELSE <<"tcp">>
    IN IF proto \in {<<"tcp">>, <<"udp">>, <<"icmp">>} THEN proto ELSE <<"tcp">>

\* int(text) succeeds: digits, with an optional sign
IsInt(text) ==
    IsDigit(IF text # <<>> /\ Head(text) \in {"-", "+"} THEN Tail(text) ELSE text)

\* int(conn['orig_bytes']) or int(conn['resp_bytes']) raises ValueError
BytesRaise(conn) ==
    \/ Truthy(conn.orig_bytes) /\ ~IsInt(conn.orig_bytes)
    \/ Truthy(conn.resp_bytes) /\ ~IsInt(conn.resp_bytes)

\* int(text) if text else 0
bytes_of(text) ==
    IF ~Truthy(text) THEN 0
    ELSE IF Head(text) = "-" THEN 0 - IntVal(Tail(text))
    ELSE IF Head(text) = "+" THEN IntVal(Tail(text))
    ELSE IntVal(text)

RECURSIVE SumOver(_, _)
SumOver(list, weights) ==
    IF list = <<>> THEN 0
    ELSE weights[1] + SumOver(Tail(list), Tail(weights))

compute_wrong_fragment(conn) ==
    LET frag(weird) == /\ Truthy(Get(weird, <<"name">>))
                       /\ Has(Lower(Get(weird, <<"name">>)), "frag")
    IN Len(SelectSeq(conn.enrich[<<"weird">>], frag))

suspicious_patterns ==
    {"cmd=", "exec=", "/bin/", "/etc/", "passwd", "shadow", ".php?", "eval(", "system("}

compute_hot_indicators(conn) ==
    LET reqs == conn.enrich[<<"http">>]
        hits == [k \in 1..Len(reqs) |->
                    IF Truthy(Get(reqs[k], <<"uri">>))
                    THEN Cardinality({pattern \in suspicious_patterns :
                                         Has(Get(reqs[k], <<"uri">>), pattern)})
                    ELSE 0]
    IN SumOver(reqs, hits)

auth_services ==
    {<<"ssh">>, <<"ftp">>, <<"smtp">>, <<"pop3">>, <<"imap">>, <<"telnet">>}

\* some http request carries a user name or an Authorization header
HttpCredentials(conn) ==
    \E k \in 1..Len(conn.enrich[<<"http">>]) :
        LET http_req == conn.enrich[<<"http">>][k]
        IN \/ Truthy(Get(http_req, <<"username">>))
           \/ Has(Get(http_req, <<"request_headers">>), "Authorization")

compute_logged_in_checked(conn) ==
    IF conn.service \in auth_services /\ conn.conn_state = <<"SF">>
    THEN IF conn.service = <<"ssh">>
         THEN (IF \E k \in 1..Len(conn.enrich[<<"ssh">>]) :
                     Get(conn.enrich[<<"ssh">>][k], <<"auth_success">>) = <<"true">>
               THEN <<"1">> ELSE <<"0">>)
         ELSE IF conn.service = <<"ftp">>
         THEN (IF \E k \in 1..Len(conn.enrich[<<"ftp">>]) :
                     /\ Truthy(Get(conn.enrich[<<"ftp">>][k], <<"user">>))
                     /\ Truthy(Get(conn.enrich[<<"ftp">>][k], <<"password">>))
               THEN <<"1">> ELSE <<"0">>)
         ELSE <<"1">>
    ELSE IF HttpCredentials(conn) THEN <<"1">> ELSE <<"0">>

compute_logged_in(conn) ==
    IF conn.service \in auth_services /\ conn.conn_state = <<"SF">>
    THEN IF /\ conn.service = <<"ssh">>
            /\ \E k \in 1..Len(conn.enrich[<<"ssh">>]) :
                  Get(conn.enrich[<<"ssh">>][k], <<"auth_success">>) = <<"true">>
         THEN <<"1">>
         ELSE IF /\ conn.service = <<"ftp">>
                 /\ \E k \in 1..Len(conn.enrich[<<"ftp">>]) :
                       /\ Truthy(Get(conn.enrich[<<"ftp">>][k], <<"user">>))
                       /\ Truthy(Get(conn.enrich[<<"ftp">>][k], <<"password">>))
         THEN <<"1">>
         ELSE <<"1">>
    ELSE IF HttpCredentials(conn) THEN <<"1">> ELSE <<"0">>

compromise_indicators == {"exploit", "attack", "backdoor", "trojan"}

compute_num_compromised(conn) ==
    LET bad(notice) ==
            /\ Get(notice, <<"note">>) # None
            /\ \E x \in compromise_indicators : Has(Lower(Get(notice, <<"note">>)), x)
    IN Len(SelectSeq(conn.enrich[<<"notice">>], bad))

\* One record of nslkdd_records; uid names the connection it was computed
\* from (the CSV row itself does not carry it).  The duration 0 of a
\* connection without duration is kept as the text it is written as.
nslkdd_record(conn, host_connections, srv_connections) ==
    LET hosts == hosts_after(conn, host_connections)
        srvs == srvs_after(conn, srv_connections)
        error_rates == compute_error_rates(conn, hosts, srvs)
    IN [uid |-> conn.uid,
        duration |-> IF Truthy(conn.duration) THEN conn.duration ELSE <<"0">>,
        protocol_type |-> protocol_type_of(conn),
        service |-> service_of(conn),
        flag |-> flag_of(conn),
        src_bytes |-> bytes_of(conn.orig_bytes),
        dst_bytes |-> bytes_of(conn.resp_bytes),
        wrong_fragment |-> compute_wrong_fragment(conn),
        hot |-> compute_hot_indicators(conn),
        logged_in |-> compute_logged_in(conn),
        num_compromised |-> compute_num_compromised(conn),
        count |-> compute_same_host_count(conn, hosts),
        srv_count |-> compute_same_service_count(conn, srv_connections),
        serror_rate |-> error_rates.serror_rate,
        srv_serror_rate |-> error_rates.srv_serror_rate,
        rerror_rate |-> error_rates.rerror_rate]

\* The loop over sorted_connections; an exception ends it without a result.
RECURSIVE FeatureLoop(_, _, _, _, _)
FeatureLoop(sorted, i, host_connections, srv_connections, nslkdd_records) ==
    IF i > Len(sorted) THEN [raised |-> FALSE, nslkdd_records |-> nslkdd_records]
    ELSE IF BytesRaise(sorted[i]) \/ SrvRaises(sorted[i])
    THEN [raised |-> TRUE, nslkdd_records |-> <<>>]
    ELSE FeatureLoop(sorted, i + 1,
                     hosts_after(sorted[i], host_connections),
                     srvs_after(sorted[i], srv_connections),
                     Append(nslkdd_records,
                            nslkdd_record(sorted[i], host_connections, srv_connections)))

compute_nslkdd_features(conns) ==
    FeatureLoop(sorted_connections(conns), 1, <<>>, <<>>, <<>>)

VARIABLES
    spool,            \* the spool directory: name of each file present -> lines
    disk,             \* zeek_log_positions.json: [state, content]
    csv,              \* the output CSV: the UID each data row was computed from
    file_positions,   \* the in-memory ledger: file name -> line offset
    known_files,
    consecutive_empty_checks,
    connections,      \* self.connections, in insertion order
    new_connections,
    log_files_to_check,
    pc,
    \* history of the run, read by the properties only
    did_reset,        \* the running cycle began with the full reset
    quiet,            \* no file changed since the previous call returned
    scan_history,     \* [empty, reset] of the last cycles, oldest first
    changes,          \* file changes so far
    ended_at,         \* where in the loop the process ended ("" while it runs)
    append_only,      \* no log file was removed, and the run began without a ledger
    \* the output file as the Sink writes it, row by row
    output_file,      \* [exists, rows]: the header row and the data rows
    sunk,             \* history: [fresh, records] written since the start
    \* the prediction monitor (realtime_predictor_web.py)
    predictions_history,
    prediction_queue,
    max_history,
    \* the verification pass over a ledger (verify_file_positions)
    files,            \* what the file system answers for each path of the ledger
    updated_positions,
    \* the documents enrich_data_for_elasticsearch returned
    es_records,
    \* one output of the model and what each of its consumers reports for it
    model_output,     \* [pred, prob]: predict() and predict_proba() of a row
    reports,          \* [console, web, dashboard]
    \* the poll loop of the predictors over the CSV
    last_position,    \* self.last_position, in bytes
    current_size,     \* the size sampled at the start of the iteration
    \* the dashboard thread, reading the history the monitor thread appends to
    reader

vars == <<spool, disk, csv, file_positions, known_files,
          consecutive_empty_checks, connections, new_connections,
          log_files_to_check, pc, did_reset, quiet, scan_history,
          append_only, changes, ended_at,
          output_file, sunk, predictions_history, prediction_queue, max_history,
          files, updated_positions, es_records, model_output, reports,
          last_position, current_size, reader>>

\* the state of the components a specification leaves alone
predictor == <<predictions_history, prediction_queue, max_history>>
verifier == <<files, updated_positions>>
consumers == <<model_output, reports>>
poller == <<last_position, current_size>>
extras == <<verifier, es_records, consumers, poller, reader>>
others == <<output_file, sunk, predictor, extras>>

hvars == <<changes, ended_at, did_reset, quiet, scan_history, append_only>>

\* the output file does not exist
NoFile == [exists |-> FALSE, rows |-> <<>>]

\* the predictor as constructed with the default capacity
PredictorIdle ==
    /\ predictions_history = <<>>
    /\ prediction_queue = <<>>
    /\ max_history = 500

\* verify_file_positions has not been called
VerifierIdle ==
    /\ files = <<>>
    /\ updated_positions = <<>>

\* no row has been given to the model
NoReport == [prediction |-> "", confidence |-> 0]
ConsumersIdle ==
    /\ model_output = [pred |-> 0, prob |-> <<10, 0>>]
    /\ reports = [console |-> NoReport, web |-> NoReport, dashboard |-> NoReport]

\* the predictor as constructed: nothing read yet
PollerIdle ==
    /\ last_position = 0
    /\ current_size = 0

\* the dashboard at the top of its update loop; instants are the values the
\* history has had since get_statistics was called (kept for the properties)
AtDrain ==
    [pc |-> "drain", total |-> 0, attacks |-> 0, i |-> 0, counter |-> 0,
     mutated |-> FALSE, instants |-> {}]
ReaderIdle == reader = AtDrain

ExtrasIdle ==
    /\ VerifierIdle
    /\ es_records = <<>>
    /\ ConsumersIdle
    /\ PollerIdle
    /\ ReaderIdle

\* the other components before they have run
OthersIdle ==
    /\ output_file = NoFile
    /\ sunk = [fresh |-> TRUE, records |-> <<>>, last |-> "none"]
    /\ PredictorIdle
    /\ ExtrasIdle

EmptyLedger == <<>>

\* ------------------------------------------------------- the ledger file
NoDocument == [state |-> "absent", content |-> EmptyLedger]
Truncated == [state |-> "empty", content |-> EmptyLedger]
Partial == [state |-> "partial", content |-> EmptyLedger]
\* json.dump(file_positions, f), completed
Dumped(positions) == [state |-> "complete", content |-> positions]

\* json.load at startup: a failure leaves the ledger empty
Loaded(document) ==
    IF document.state = "complete" THEN document.content ELSE EmptyLedger

\* The ledgers an earlier run may have left: conn.log at 0 or at a line the
\* file no longer has, a protocol log at 0.
StartLedgers ==
    UNION {{l \in [S -> {0, StaleOffset}] : \A f \in S \ {ConnLog} : l[f] = 0} :
           S \in SUBSET LogFiles}

Spools ==
    UNION {{g \in [S -> UNION {Contents(f, MaxLen(f)) : f \in S}] :
                \A f \in S : g[f] \in Contents(f, MaxLen(f))} :
           S \in SUBSET LogFiles}

Init ==
    /\ spool \in Spools
    /\ disk \in {NoDocument} \cup {Dumped(l) : l \in StartLedgers}
    /\ csv = <<>>
    /\ file_positions = Loaded(disk)
    /\ known_files = DOMAIN Loaded(disk)
    /\ consecutive_empty_checks = 0
    /\ connections = <<>>
    /\ new_connections = 0
    /\ log_files_to_check = {}
    /\ pc = "scan"
    /\ did_reset = FALSE
    /\ changes = 0
    /\ ended_at = ""
    /\ quiet = FALSE
    /\ scan_history = <<>>
    /\ append_only = (disk = NoDocument)
    /\ OthersIdle

\* --------------------------------------------------------------- the loop
\* file_positions[new_file] = 0 for the new files
WithNewFiles(positions, new_files) ==
    [f \in DOMAIN positions \cup new_files |->
        IF f \in new_files THEN 0 ELSE positions[f]]

\* del file_positions[missing_file]
WithoutFiles(positions, missing_files) ==
    [f \in DOMAIN positions \ missing_files |-> positions[f]]

\* The known set once the new files are recorded.
KnownAfterNew(known, current_files) ==
    IF current_files \ known # {} THEN current_files ELSE known

\* {f: 0 for f in file_positions}
AllZero(positions) == [f \in DOMAIN positions |-> 0]

\* the reset one empty scan too early
ShouldResetEarly(empty_checks) == empty_checks >= EmptyLimit - 1

ShouldReset(empty_checks) == empty_checks >= EmptyLimit

\* One SCAN: the file-set deltas, then the reset after three empty scans.
Scan ==
    /\ pc = "scan"
    /\ LET current_files == DOMAIN spool
           new_files == current_files \ known_files
           known1 == KnownAfterNew(known_files, current_files)
           missing_files == known1 \ current_files
           positions1 == WithoutFiles(WithNewFiles(file_positions, new_files),
                                      missing_files)
       IN /\ known_files' = IF missing_files # {} THEN current_files ELSE known1
          /\ IF ShouldReset(consecutive_empty_checks)
             THEN /\ file_positions' = AllZero(positions1)
                  /\ consecutive_empty_checks' = 0
                  /\ did_reset' = TRUE
             ELSE /\ file_positions' = positions1
                  /\ UNCHANGED consecutive_empty_checks
                  /\ did_reset' = FALSE
    /\ pc' = "extract"
    /\ UNCHANGED <<spool, disk, csv, connections, new_connections,
                   log_files_to_check, quiet,
                   scan_history, append_only, changes, ended_at>>
    /\ UNCHANGED others

\* an empty listing that ends the cycle without the save
AfterListingNoSave(listing) == IF listing = {} THEN "features" ELSE "read_conn"

\* Where the call goes once the directory is listed.
AfterListing(listing) == IF listing = {} THEN "return" ELSE "read_conn"

\* the map of the earlier calls kept
keep_connections(conns) == conns

\* self.connections = {}
reset_connections(conns) == <<>>

\* The call begins: the map is emptied and the directory listed.
ExtractBegin ==
    /\ pc = "extract"
    /\ connections' = reset_connections(connections)
    /\ new_connections' = 0
    /\ log_files_to_check' = DOMAIN spool
    /\ pc' = AfterListing(DOMAIN spool)
    /\ UNCHANGED <<spool, disk, csv, file_positions, known_files,
                   consecutive_empty_checks, did_reset,
                   quiet, scan_history, append_only, changes, ended_at>>
    /\ UNCHANGED others

\* the ledger given the lines read in this scan instead of the line reached
lines_read(lines, start) == IF start > Len(lines) THEN 0 ELSE Len(lines) - start

\* current_line when the loop ends without raising
current_line(lines, start) == IF start > Len(lines) THEN start ELSE Len(lines)

\* The ledger after reading file f: advanced, or left alone when the read raised.
AfterRead(positions, f, lines) ==
    IF Raises(lines) THEN positions
    ELSE Put(positions, f, current_line(lines, start_line(positions, f)))

\* First step of the call: conn.log.
ReadConn ==
    /\ pc = "read_conn"
    /\ IF ConnLog \in DOMAIN spool
       THEN LET lines == spool[ConnLog]
                start == start_line(file_positions, ConnLog)
                r == ConnLoop(lines, start + 1, Delivered(lines, start),
                              NoHeader, connections, new_connections)
            IN /\ connections' = r.connections
               /\ new_connections' = r.new_connections
               /\ file_positions' = AfterRead(file_positions, ConnLog, lines)
       ELSE UNCHANGED <<connections, new_connections, file_positions, changes, ended_at>>
    /\ pc' = "read_proto"
    /\ UNCHANGED <<spool, disk, csv, known_files, consecutive_empty_checks,
                   log_files_to_check, did_reset, quiet, scan_history, append_only, changes, ended_at>>
    /\ UNCHANGED others

\* Second step: one protocol log of the listing.
ReadProto(f) ==
    /\ pc = "read_proto"
    /\ f \in log_files_to_check \ {ConnLog}
    /\ LET lines == spool[f]
           start == start_line(file_positions, f)
       IN /\ connections' = ProtoLoop(lines, start + 1, Delivered(lines, start),
                                       NoHeader, LogType(f), connections)
          /\ file_positions' = AfterRead(file_positions, f, lines)
    /\ log_files_to_check' = log_files_to_check \ {f}
    /\ UNCHANGED <<spool, disk, csv, known_files, consecutive_empty_checks,
                   new_connections, pc, did_reset, quiet, scan_history, append_only, changes, ended_at>>
    /\ UNCHANGED others

\* The call returns (new_connections, file_positions) to the loop: at once
\* when the listing is empty, else when the loop over the listing is over.
ExtractReturn ==
    /\ \/ pc = "return"
       \/ pc = "read_proto" /\ log_files_to_check \ {ConnLog} = {}
    /\ pc' = "persist_open"
    /\ quiet' = TRUE
    /\ UNCHANGED <<spool, disk, csv, file_positions, known_files,
                   consecutive_empty_checks, connections, new_connections,
                   log_files_to_check, did_reset, scan_history, append_only,
                   changes, ended_at>>
    /\ UNCHANGED others

\* open(positions_file, 'w'): the ledger file is truncated in place
PersistOpen ==
    /\ pc = "persist_open"
    /\ disk' = Truncated
    /\ pc' = "persist_dump"
    /\ UNCHANGED <<spool, csv, file_positions, known_files,
                   consecutive_empty_checks, connections, new_connections,
                   log_files_to_check, hvars>>
    /\ UNCHANGED others

\* json.dump(file_positions, f) and the close of the file
PersistDump ==
    /\ pc = "persist_dump"
    /\ disk' = Dumped(file_positions)
    /\ pc' = "features"
    /\ UNCHANGED <<spool, csv, file_positions, known_files,
                   consecutive_empty_checks, connections, new_connections,
                   log_files_to_check, hvars>>
    /\ UNCHANGED others

\* compute_same_service_count calls float(conn['ts']) outside any handler
FeaturesRaise(conns) ==
    \E i \in 1..Len(conns) :
        Truthy(conns[i].ts) /\ Truthy(conns[i].service) /\ ~IsFloat(conns[i].ts)

\* One row per connection of the map, in timestamp order.
Rows(conns) ==
    LET sorted == sorted_connections(conns)
    IN [i \in 1..Len(sorted) |-> sorted[i].uid]

Remember(history, entry) ==
    IF Len(history) < EmptyLimit THEN Append(history, entry)
    ELSE Append(Tail(history), entry)

\* The end of the cycle: the rows are appended, or the empty scan is counted.
Features ==
    /\ pc = "features"
    /\ IF new_connections > 0
       THEN /\ ~FeaturesRaise(connections)
            /\ Len(csv) + Len(connections) <= MaxRows
            /\ csv' = csv \o Rows(connections)
            /\ consecutive_empty_checks' = 0
       ELSE /\ consecutive_empty_checks' = consecutive_empty_checks + 1
            /\ UNCHANGED csv
    /\ scan_history' = Remember(scan_history,
                                [empty |-> new_connections = 0, reset |-> did_reset])
    /\ pc' = "sleep"
    /\ UNCHANGED <<spool, disk, file_positions, known_files, connections,
                   new_connections, log_files_to_check, did_reset,
                   quiet, append_only, changes, ended_at>>
    /\ UNCHANGED others

\* The process has ended: its memory is released.  The ledger it held at
\* that moment stays in file_positions, for the properties to read.
Released ==
    /\ known_files' = {}
    /\ consecutive_empty_checks' = 0
    /\ connections' = <<>>
    /\ new_connections' = 0
    /\ log_files_to_check' = {}
    /\ did_reset' = FALSE
    /\ quiet' = FALSE
    /\ scan_history' = <<>>
    /\ changes' = 0
    /\ ended_at' = pc
    /\ UNCHANGED <<spool, csv, file_positions, append_only>>
    /\ UNCHANGED others

\* A ValueError of the feature computation leaves the loop: only
\* KeyboardInterrupt is handled around it.
FeaturesError ==
    /\ pc = "features"
    /\ new_connections > 0
    /\ FeaturesRaise(connections)
    /\ pc' = "exited"
    /\ UNCHANGED disk
    /\ Released

\* time.sleep(interval) returns
Sleep ==
    /\ pc = "sleep"
    /\ pc' = "scan"
    /\ UNCHANGED <<spool, disk, csv, file_positions, known_files,
                   consecutive_empty_checks, connections, new_connections,
                   log_files_to_check, hvars>>
    /\ UNCHANGED others

InLoop == pc \in {"scan", "extract", "read_conn", "read_proto", "return",
                  "persist_open", "persist_dump", "features", "sleep"}

\* a handler that leaves without saving
OnInterruptNoSave(document, positions) == document

\* The ledger file once the KeyboardInterrupt handler has run.
OnInterrupt(document, positions) == Dumped(positions)

\* Ctrl+C anywhere in the loop: the handler saves the ledger and the loop ends.
Interrupt ==
    /\ InLoop
    /\ disk' = OnInterrupt(disk, file_positions)
    /\ pc' = "exited"
    /\ Released

\* The process is killed (or the machine stops): no handler runs.  A dump
\* under way leaves whatever part of the document had reached the file.
Crash ==
    /\ InLoop
    /\ disk' \in IF pc = "persist_dump" THEN {Truncated, Partial} ELSE {disk}
    /\ pc' = "crashed"
    /\ Released

\* ------------------------------------------------------- the environment
\* The log files change while the loop sleeps.
AppendLine(f) ==
    /\ pc = "sleep"
    /\ f \in DOMAIN spool
    /\ Len(spool[f]) < MaxLen(f)
    /\ \E line \in Appendable(f) : spool' = [spool EXCEPT ![f] = Append(@, line)]
    /\ quiet' = FALSE
    /\ changes < MaxChanges
    /\ changes' = changes + 1
    /\ UNCHANGED <<disk, csv, file_positions, known_files,
                   consecutive_empty_checks, connections, new_connections,
                   log_files_to_check, pc, ended_at, did_reset, scan_history, append_only>>
    /\ UNCHANGED others

CreateFile(f) ==
    /\ pc = "sleep"
    /\ f \in LogFiles \ DOMAIN spool
    /\ spool' = Put(spool, f, <<FieldsLine>>)
    /\ quiet' = FALSE
    /\ changes < MaxChanges
    /\ changes' = changes + 1
    /\ UNCHANGED <<disk, csv, file_positions, known_files,
                   consecutive_empty_checks, connections, new_connections,
                   log_files_to_check, pc, ended_at, did_reset, scan_history, append_only>>
    /\ UNCHANGED others

RemoveFile(f) ==
    /\ pc = "sleep"
    /\ f \in DOMAIN spool
    /\ spool' = [g \in DOMAIN spool \ {f} |-> spool[g]]
    /\ quiet' = FALSE
    /\ changes < MaxChanges
    /\ changes' = changes + 1
    /\ append_only' = FALSE
    /\ UNCHANGED <<disk, csv, file_positions, known_files,
                   consecutive_empty_checks, connections, new_connections,
                   log_files_to_check, pc, ended_at, did_reset, scan_history>>
    /\ UNCHANGED others

Next ==
    \/ Scan
    \/ ExtractBegin
    \/ ReadConn
    \/ \E f \in LogFiles : ReadProto(f)
    \/ ExtractReturn
    \/ PersistOpen
    \/ PersistDump
    \/ Features
    \/ FeaturesError
    \/ Sleep
    \/ Interrupt
    \/ Crash
    \/ \E f \in LogFiles : AppendLine(f)
    \/ \E f \in LogFiles : CreateFile(f)
    \/ \E f \in LogFiles : RemoveFile(f)

Spec == Init /\ [][Next]_vars

TypeOK ==
    /\ DOMAIN spool \subseteq LogFiles
    /\ DOMAIN file_positions \subseteq LogFiles
    /\ consecutive_empty_checks \in 0..EmptyLimit
    /\ Len(csv) <= MaxRows

\* ------------------------------------------------- one processing pass
\* A batch run (convert) or the first scan cycle of the monitor over a
\* conn log and one protocol log whose lines carry the fields the window
\* features read.
MaxPassLines == 3    \* data lines of the conn log of a pass
MaxPassProto == 3    \* data lines of the protocol log of a pass

ConnFields ==
    [kind |-> "fields",
     tok |-> << <<"ts">>, <<"uid">>, <<"id.orig_h">>, <<"id.resp_h">>,
                <<"service">>, <<"conn_state">> >>]
ConnLine(ts, uid, orig_h, resp_h, service, conn_state) ==
    [kind |-> "data", tok |-> <<ts, uid, orig_h, resp_h, service, conn_state>>]

Ts100 == <<"1", "0", "0", ".", "0">>
Ts100_5 == <<"1", "0", "0", ".", "5">>
Ts103 == <<"1", "0", "3", ".", "0">>
TsMinus == <<"-", "1">>     \* "-1": accepted by the validation, negative
TsWord == <<"x">>           \* "x": rejected by the validation
UidC == <<"c">>
UidD == <<"d">>
H1 == <<"h1">>
H2 == <<"h2">>
H3 == <<"h3">>
S0 == <<"S0">>
REJ == <<"REJ">>
SF == <<"SF">>

PassConnLines ==
    {ConnLine(Ts100, UidA, H1, H2, <<"http">>, S0),
     ConnLine(Ts100_5, UidB, H1, H2, <<"http">>, SF),
     ConnLine(Ts103, UidC, H1, H2, <<"http">>, REJ),
     ConnLine(Ts100_5, UidA, H1, H3, Dash, SF),
     ConnLine(Ts100_5, UidB, H1, Dash, <<"dns">>, S0),
     ConnLine(TsDashed, UidC, H1, H2, <<"http">>, SF),
     ConnLine(TsMinus, UidC, Dash, H2, <<"http">>, S0),
     ConnLine(TsWord, UidB, H1, H2, <<"http">>, SF)}
PassProtoLines ==
    {DataLine(TsGood, UidA), DataLine(<<"2">>, UidA), DataLine(TsGood, UidD)}
PassProtoLogs == {HttpLog, WeirdLog}

RECURSIVE Bodies(_, _)
Bodies(alphabet, n) ==
    IF n = 0 THEN {<<>>}
    ELSE LET shorter == Bodies(alphabet, n - 1)
         IN shorter \cup {Append(b, l) : b \in {c \in shorter : Len(c) = n - 1},
                                          l \in alphabet}

\* A file that cannot be read: its first bytes already fail to decode.
Unreadable == <<GarbageLine>>

PassSpools ==
    {[f \in {ConnLog, p} |-> IF f = ConnLog THEN c ELSE e] :
        p \in PassProtoLogs,
        c \in {<<ConnFields>> \o b : b \in Bodies(PassConnLines, MaxPassLines)}
                \cup {Unreadable},
        e \in {<<FieldsLine>> \o b : b \in Bodies(PassProtoLines, MaxPassProto)}
                \cup {Unreadable}}

\* The records of a log file, as the parser of the batch path yields them.
RECURSIVE read_log_file(_, _, _)
read_log_file(lines, header, records) ==
    IF lines = <<>> THEN records
    ELSE LET line == Head(lines)
         IN IF line.kind = "fields"
            THEN read_log_file(Tail(lines), line.tok, records)
            ELSE IF line.kind # "data" \/ header = NoHeader
            THEN read_log_file(Tail(lines), header, records)
            ELSE read_log_file(Tail(lines), header,
                               Append(records, MakeRecord(header, line.tok)))

\* extract_connection_data: the loop over conn_records
RECURSIVE BatchLoop(_, _, _)
BatchLoop(conn_records, conns, n) ==
    IF conn_records = <<>> THEN [connections |-> conns, new_connections |-> n]
    ELSE LET record == Head(conn_records)
         IN IF <<"uid">> \notin DOMAIN record
            THEN BatchLoop(Tail(conn_records), conns, n)
            ELSE IF IndexOf(conns, record[<<"uid">>]) # 0
            THEN BatchLoop(Tail(conn_records), conns, n)
            ELSE IF ~TsValid(Get(record, <<"ts">>))
            THEN BatchLoop(Tail(conn_records), conns, n)
            ELSE BatchLoop(Tail(conn_records),
                           SetConnection(conns, NewConnection(record)), n + 1)

\* enrich_with_protocol_logs: one record of a log of the given protocol
BatchEnrich(conns, protocol, record) ==
    LET i == IF <<"uid">> \in DOMAIN record
             THEN IndexOf(conns, record[<<"uid">>]) ELSE 0
    IN IF i = 0 THEN conns
       ELSE [conns EXCEPT
               ![i].enrich[protocol] = Append(@, record),
               ![i].service = IF ~Truthy(@) THEN protocol ELSE @]

RECURSIVE BatchEnrichLoop(_, _, _)
BatchEnrichLoop(records, protocol, conns) ==
    IF records = <<>> THEN conns
    ELSE BatchEnrichLoop(Tail(records), protocol,
                         BatchEnrich(conns, protocol, Head(records)))

PassProto == CHOOSE f \in DOMAIN spool : f # ConnLog

PassFrame ==
    UNCHANGED <<spool, disk, file_positions, known_files,
                consecutive_empty_checks, log_files_to_check, hvars, others>>

PassInit ==
    /\ spool \in PassSpools
    /\ pc \in {"batch_extract", "rt_extract"}
    /\ disk = NoDocument
    /\ csv = <<>>
    /\ file_positions = EmptyLedger
    /\ known_files = {}
    /\ consecutive_empty_checks = 0
    /\ connections = <<>>
    /\ new_connections = 0
    /\ log_files_to_check = IF pc = "rt_extract" THEN DOMAIN spool ELSE {}
    /\ did_reset = FALSE
    /\ changes = 0
    /\ ended_at = ""
    /\ quiet = FALSE
    /\ scan_history = <<>>
    /\ append_only = TRUE
    /\ OthersIdle

\* extract_connection_data: a conn archive whose read raises is reported by
\* the handler around the call and contributes no record.
BatchExtract ==
    /\ pc = "batch_extract"
    /\ LET conn_records == IF Raises(spool[ConnLog]) THEN <<>>
                           ELSE read_log_file(spool[ConnLog], NoHeader, <<>>)
           result == BatchLoop(conn_records, <<>>, 0)
       IN /\ connections' = result.connections
          /\ new_connections' = result.new_connections
    /\ pc' = "batch_enrich"
    /\ UNCHANGED csv
    /\ PassFrame

\* enrich_with_protocol_logs: the call of the reader has no handler around
\* it, in this method or in its callers up to the entry point.
BatchEnrichLogs ==
    /\ pc = "batch_enrich"
    /\ IF Raises(spool[PassProto])
       THEN /\ pc' = "aborted"
            /\ UNCHANGED connections
       ELSE /\ connections' =
                  BatchEnrichLoop(read_log_file(spool[PassProto], NoHeader, <<>>),
                                  LogType(PassProto), connections)
            /\ pc' = "compute"
    /\ UNCHANGED <<csv, new_connections>>
    /\ PassFrame

PassReadConn ==
    /\ pc = "rt_extract"
    /\ LET lines == spool[ConnLog]
           result == ConnLoop(lines, 1, Delivered(lines, 0), NoHeader, <<>>, 0)
       IN /\ connections' = result.connections
          /\ new_connections' = result.new_connections
    /\ pc' = "rt_enrich"
    /\ UNCHANGED csv
    /\ PassFrame

PassReadProto ==
    /\ pc = "rt_enrich"
    /\ LET lines == spool[PassProto]
       IN connections' = ProtoLoop(lines, 1, Delivered(lines, 0), NoHeader,
                                   LogType(PassProto), connections)
    /\ pc' = "compute"
    /\ UNCHANGED <<csv, new_connections>>
    /\ PassFrame

\* the computation writing the default service back into the map
ComputeDefaulting ==
    /\ pc = "compute"
    /\ LET result == compute_nslkdd_features(connections)
       IN /\ csv' = result.nslkdd_records
          /\ pc' = IF result.raised THEN "raised" ELSE "written"
    /\ connections' =
          [k \in 1..Len(connections) |->
              [connections[k] EXCEPT
                  !.service = IF Truthy(@) THEN @ ELSE <<"other">>]]
    /\ UNCHANGED new_connections
    /\ PassFrame

\* compute_nslkdd_features and the writing of its records
Compute ==
    /\ pc = "compute"
    /\ LET result == compute_nslkdd_features(connections)
       IN /\ csv' = result.nslkdd_records
          /\ pc' = IF result.raised THEN "raised" ELSE "written"
    /\ UNCHANGED <<connections, new_connections>>
    /\ PassFrame

\* compute_nslkdd_features called a second time on the same map
Recompute ==
    /\ pc = "written"
    /\ csv' = compute_nslkdd_features(connections).nslkdd_records
    /\ pc' = "recomputed"
    /\ UNCHANGED <<connections, new_connections>>
    /\ PassFrame

PassNext ==
    \/ BatchExtract
    \/ BatchEnrichLogs
    \/ PassReadConn
    \/ PassReadProto
    \/ Compute
    \/ Recompute

PassSpec == PassInit /\ [][PassNext]_vars

PassTypeOK ==
    /\ pc \in {"batch_extract", "batch_enrich", "rt_extract", "rt_enrich",
               "compute", "raised", "written", "aborted", "recomputed"}
    /\ Len(connections) <= MaxPassLines
    /\ Len(csv) <= Len(connections)

\* the converter before it has run, its map and its position apart
RestIdle ==
    /\ spool = [f \in {} |-> <<>>]
    /\ disk = NoDocument
    /\ csv = <<>>
    /\ file_positions = EmptyLedger
    /\ known_files = {}
    /\ consecutive_empty_checks = 0
    /\ new_connections = 0
    /\ log_files_to_check = {}
    /\ did_reset = FALSE
    /\ changes = 0
    /\ ended_at = ""
    /\ quiet = FALSE
    /\ scan_history = <<>>
    /\ append_only = TRUE

\* ------------------------------------------- one record of the features
\* The map of one Connection, as the ingestion of a conn line with the given
\* service and state and the enrichment with at most one record of the http,
\* ssh and ftp logs leave it; the feature engine then computes its record.
RecordServices == (DOMAIN service_mapping) \cup {Dash, <<"xyz">>}
RecordStates == (DOMAIN flag_mapping) \cup {Dash, <<"RSTX">>}

HttpRecords ==
    {MakeRecord(<< <<"ts">>, <<"uid">>, <<"username">>, <<"request_headers">> >>, values) :
        values \in {<<TsGood, UidA, Dash, <<"Accept">> >>,
                    <<TsGood, UidA, <<"bob">>, Dash>>,
                    <<TsGood, UidA, Dash, <<"Authorization", ":", "Basic">> >>}}
SshRecords ==
    {MakeRecord(<< <<"ts">>, <<"uid">>, <<"auth_success">> >>, values) :
        values \in {<<TsGood, UidA, <<"true">> >>, <<TsGood, UidA, <<"false">> >>}}
FtpRecords ==
    {MakeRecord(<< <<"ts">>, <<"uid">>, <<"user">>, <<"password">> >>, values) :
        values \in {<<TsGood, UidA, <<"bob">>, <<"secret">> >>,
                    <<TsGood, UidA, <<"bob">>, Dash>>}}

\* no record of the log carries the UID
NoRecord == <<>>

EnrichWith(conns, log_type, record) ==
    IF record = NoRecord THEN conns ELSE Enrich(conns, log_type, record)

RecordMap(service, state, http, ssh, ftp) ==
    LET record == MakeRecord(<< <<"ts">>, <<"uid">>, <<"service">>, <<"conn_state">> >>,
                             <<Ts100, UidA, service, state>>)
        ingested == SetConnection(<<>>, NewConnection(record))
    IN EnrichWith(EnrichWith(EnrichWith(ingested, <<"http">>, http),
                             <<"ssh">>, ssh),
                  <<"ftp">>, ftp)

RecordInit ==
    /\ RestIdle
    /\ OthersIdle
    /\ pc = "compute"
    /\ \E service \in RecordServices, state \in RecordStates,
          http \in HttpRecords \cup {NoRecord},
          ssh \in SshRecords \cup {NoRecord},
          ftp \in FtpRecords \cup {NoRecord} :
            connections = RecordMap(service, state, http, ssh, ftp)

RecordNext == Compute

RecordSpec == RecordInit /\ [][RecordNext]_vars

\* ------------------------------------------------------- the output sink
\* The output file is the sequence of its rows, a row the sequence of its
\* cells, a cell a text.  sunk remembers what the writers were given: whether
\* the file was absent at first and only appended to since, the records
\* written since, and which writer made the last call.
MaxSunk == 3    \* data rows the appender may bring the output file to

\* the state of the converter, which the output sink leaves alone
core ==
    <<spool, disk, csv, file_positions, known_files, consecutive_empty_checks,
      connections, new_connections, log_files_to_check, pc, hvars>>

\* the converter before it has run
CoreIdle ==
    /\ RestIdle
    /\ connections = <<>>
    /\ pc = "idle"

\* self.nslkdd_attributes
nslkdd_attributes ==
    <<"duration", "protocol_type", "service", "flag", "src_bytes", "dst_bytes",
      "wrong_fragment", "hot", "logged_in", "num_compromised", "count",
      "srv_count", "serror_rate", "srv_serror_rate", "rerror_rate">>

\* str(n) of an integer
RECURSIVE IntText(_)
IntText(n) ==
    IF n < 0 THEN <<"-">> \o IntText(0 - n)
    ELSE IF n < 10 THEN <<DigitSeq[n + 1]>>
    ELSE IntText(n \div 10) \o <<DigitSeq[(n % 10) + 1]>>

RECURSIVE GCD(_, _)
GCD(a, b) == IF b = 0 THEN a ELSE GCD(b, a % b)

\* str(x) of the float num / den: one text per value, written here as the
\* fraction in lowest terms
FloatText(rate) ==
    LET g == GCD(rate.num, rate.den)
    IN IntText(rate.num \div g) \o <<"/">> \o IntText(rate.den \div g)

\* the text the csv writer gives the value of a field
CellText(record, attribute) ==
    IF attribute \in {"src_bytes", "dst_bytes", "wrong_fragment", "hot",
                      "num_compromised", "count", "srv_count"}
    THEN IntText(record[attribute])
    ELSE IF attribute \in {"serror_rate", "srv_serror_rate", "rerror_rate"}
    THEN FloatText(record[attribute])
    ELSE record[attribute]

\* writer.writeheader()
writeheader == [i \in 1..Len(nslkdd_attributes) |-> <<nslkdd_attributes[i]>>]

\* writer.writerow(record): the fields in the order of fieldnames
writerow(record) ==
    [i \in 1..Len(nslkdd_attributes) |-> CellText(record, nslkdd_attributes[i])]

writerows(nslkdd_records) ==
    [k \in 1..Len(nslkdd_records) |-> writerow(nslkdd_records[k])]

\* write_nslkdd_format: open(self.output_file, 'w')
write_nslkdd_format(file, nslkdd_records) ==
    [exists |-> TRUE, rows |-> <<writeheader>> \o writerows(nslkdd_records)]

\* the appender writing the header on every call
append_with_header(file, nslkdd_records) ==
    [exists |-> TRUE,
     rows |-> file.rows \o <<writeheader>> \o writerows(nslkdd_records)]

\* the appender opening the file as the batch writer does
append_truncating(file, nslkdd_records) ==
    [exists |-> TRUE,
     rows |-> (IF file.exists THEN <<>> ELSE <<writeheader>>)
                 \o writerows(nslkdd_records)]

\* append_to_nslkdd_file: open(self.output_file, 'a')
append_to_nslkdd_file(file, nslkdd_records) ==
    [exists |-> TRUE,
     rows |-> file.rows \o (IF file.exists THEN <<>> ELSE <<writeheader>>)
                 \o writerows(nslkdd_records)]

\* The conn lines the records handed to the writers are computed from.
SinkConnLines ==
    {ConnLine(Ts100, UidA, H1, H2, <<"http">>, S0),
     ConnLine(Ts100_5, UidB, H1, H2, <<"https">>, SF),
     ConnLine(Ts100_5, UidB, H1, Dash, <<"dns">>, <<"RSTX">>)}

\* The lists of records one call may be given: those of the small passes.
SinkBatches ==
    {compute_nslkdd_features(
         ConnLoop(<<ConnFields>> \o b, 1, 1 + Len(b), NoHeader, <<>>, 0).connections
     ).nslkdd_records : b \in Bodies(SinkConnLines, 2)}

\* the output file before the run: absent, empty, or left by an earlier run
SinkFiles ==
    {NoFile, [exists |-> TRUE, rows |-> <<>>]}
        \cup {write_nslkdd_format(NoFile, b) : b \in {c \in SinkBatches : Len(c) <= 1}}

DataRows(file) == IF file.rows = <<>> THEN 0 ELSE Len(file.rows) - 1

SinkInit ==
    /\ CoreIdle
    /\ output_file \in SinkFiles
    /\ sunk = [fresh |-> output_file = NoFile, records |-> <<>>, last |-> "none"]
    /\ PredictorIdle
    /\ ExtrasIdle

SinkFrame == UNCHANGED <<core, predictor, extras>>

\* one call of the real-time appender
SinkAppend ==
    /\ \E b \in SinkBatches :
          /\ DataRows(output_file) + Len(b) <= MaxSunk
          /\ output_file' = append_to_nslkdd_file(output_file, b)
          /\ sunk' = [fresh |-> sunk.fresh, records |-> sunk.records \o b,
                      last |-> "append"]
    /\ SinkFrame

\* one call of the batch writer
SinkWrite ==
    /\ \E b \in SinkBatches :
          /\ output_file' = write_nslkdd_format(output_file, b)
          /\ sunk' = [fresh |-> FALSE, records |-> b, last |-> "write"]
    /\ SinkFrame

SinkNext == SinkAppend \/ SinkWrite

SinkSpec == SinkInit /\ [][SinkNext]_vars

\* ------------------------------------------------ the prediction history
\* realtime_predictor_web.py: the monitoring thread appends each prediction
\* to a deque of capacity max_history and puts it on a queue, which the
\* dashboard empties.
MaxHistory == 2    \* the largest capacity the history is constructed with
MaxQueue == 3      \* predictions the queue holds before the dashboard empties it

\* prediction_info, without its time stamp and the row it was made for
Predictions ==
    [prediction : {"NORMAL", "ATTACK"}, confidence : {"low", "high"}]

\* append on a full deque keeping the oldest entries
append_keeping_oldest(d, x, maxlen) ==
    IF Len(d) >= maxlen THEN d ELSE Append(d, x)

\* collections.deque(maxlen=maxlen).append(x)
append(d, x, maxlen) ==
    IF maxlen = 0 THEN d
    ELSE IF Len(d) = maxlen THEN Append(Tail(d), x)
    ELSE Append(d, x)

HistoryInit ==
    /\ CoreIdle
    /\ output_file = NoFile
    /\ sunk = [fresh |-> TRUE, records |-> <<>>, last |-> "none"]
    /\ max_history \in 0..MaxHistory
    /\ predictions_history = <<>>
    /\ prediction_queue = <<>>
    /\ ExtrasIdle

HistoryFrame == UNCHANGED <<core, output_file, sunk, max_history, extras>>

\* monitor_file: the body of the loop over the predictions of the new rows
Predict ==
    /\ Len(prediction_queue) < MaxQueue
    /\ \E prediction_info \in Predictions :
          /\ predictions_history' =
                append(predictions_history, prediction_info, max_history)
          /\ prediction_queue' = Append(prediction_queue, prediction_info)
    /\ HistoryFrame

\* the dashboard's update loop: get_nowait() until the queue is empty
Drain ==
    /\ prediction_queue # <<>>
    /\ prediction_queue' = <<>>
    /\ UNCHANGED predictions_history
    /\ HistoryFrame

HistoryNext == Predict \/ Drain

HistorySpec == HistoryInit /\ [][HistoryNext]_vars

\* ------------------------------------------------- the verification pass
\* verify_file_positions(file_positions): the offsets of the ledger against
\* the sizes and line counts of the files, as the file system gives them.
VerifySizes == {0, 28, 150}                       \* os.path.getsize
VerifyLineCounts == {0, 5, 11, 20}                \* lines of the file
VerifyPositions == {0, 42, 43, 128, 129, 250, 251}

\* os.path.exists(file_path) is False
Missing == [exists |-> FALSE, file_size |-> 0, line_count |-> 0, readable |-> FALSE]

\* A file that exists: every line has at least one byte, and a file that
\* cannot be opened or decoded as text is not readable.
VerifyFiles ==
    {Missing} \cup
    {[exists |-> TRUE, file_size |-> s, line_count |-> l, readable |-> r] :
        <<s, l, r>> \in {x \in VerifySizes \X VerifyLineCounts \X BOOLEAN :
                            /\ x[2] <= x[1]
                            /\ (x[1] = 0) <=> (x[2] = 0)}}

Max(a, b) == IF a >= b THEN a ELSE b

\* The file sizes and line counts for which position / (file_size /
\* line_count), exactly line_count * 1.5 at position = 1.5 * file_size, is
\* rounded above it in double arithmetic (42 / (28 / 20) is
\* 30.000000000000004, 42 / (28 / 5) is 7.500000000000001).
RoundedAbove == {<<28, 5>>, <<28, 20>>}

\* estimated_lines_read > line_count * 1.5, where avg_line_size = file_size
\* / max(line_count, 1) and estimated_lines_read = position /
\* max(avg_line_size, 1) if avg_line_size > 0 else 0
estimate_exceeds(position, file_size, line_count) ==
    IF file_size = 0 THEN FALSE
    ELSE IF file_size < Max(line_count, 1) THEN 2 * position > 3 * line_count
    ELSE \/ 2 * position * Max(line_count, 1) > 3 * line_count * file_size
         \/ /\ 2 * position * Max(line_count, 1) = 3 * line_count * file_size
            /\ <<file_size, line_count>> \in RoundedAbove

\* the loop over file_positions.items()
files_to_reset(positions, fs) ==
    {file_path \in DOMAIN positions :
        \/ ~fs[file_path].exists
        \/ positions[file_path] > fs[file_path].file_size + Tolerance
        \/ /\ fs[file_path].readable
           /\ positions[file_path] > 0
           /\ fs[file_path].line_count > 10
           /\ estimate_exceeds(positions[file_path], fs[file_path].file_size,
                               fs[file_path].line_count)}

\* updated_positions = file_positions.copy(), then 0 for the files to reset
verify_file_positions(positions, fs) ==
    [file_path \in DOMAIN positions |->
        IF file_path \in files_to_reset(positions, fs) THEN 0
        ELSE positions[file_path]]

VerifyInit ==
    /\ spool = [f \in {} |-> <<>>]
    /\ disk = NoDocument
    /\ csv = <<>>
    /\ \E present \in SUBSET LogFiles :
          /\ file_positions \in [present -> VerifyPositions]
          /\ files \in [present -> VerifyFiles]
    /\ updated_positions = <<>>
    /\ known_files = {}
    /\ consecutive_empty_checks = 0
    /\ connections = <<>>
    /\ new_connections = 0
    /\ log_files_to_check = {}
    /\ pc = "verify"
    /\ did_reset = FALSE
    /\ quiet = FALSE
    /\ scan_history = <<>>
    /\ changes = 0
    /\ ended_at = ""
    /\ append_only = TRUE
    /\ output_file = NoFile
    /\ sunk = [fresh |-> TRUE, records |-> <<>>, last |-> "none"]
    /\ PredictorIdle
    /\ es_records = <<>>
    /\ ConsumersIdle
    /\ PollerIdle
    /\ ReaderIdle

\* one call of verify_file_positions(file_positions)
Verify ==
    /\ pc = "verify"
    /\ updated_positions' = verify_file_positions(file_positions, files)
    /\ pc' = "verified"
    /\ UNCHANGED <<spool, disk, csv, file_positions, known_files,
                   consecutive_empty_checks, connections, new_connections,
                   log_files_to_check, hvars, output_file, sunk, predictor, files,
                   es_records, consumers, poller, reader>>

VerifyNext == Verify

VerifySpec == VerifyInit /\ [][VerifyNext]_vars

\* ------------------------------------------- the documents for the index
\* get_conn_state_description: the texts of the dictionary (accents left
\* out), "Etat inconnu" for a state that is not a key
get_conn_state_description(conn_state) ==
    IF conn_state = <<"S0">> THEN "Tentative de connexion sans reponse"
    ELSE IF conn_state = <<"SF">> THEN "Etablissement et terminaison normale"
    ELSE IF conn_state = <<"REJ">> THEN "Tentative de connexion rejetee"
    ELSE "Etat inconnu"

\* '@timestamp': the time of float(ts), the current time when ts is absent
\* or is not a number
es_timestamp(conn) ==
    IF Truthy(conn.ts) /\ IsFloat(conn.ts)
    THEN [at |-> FloatTenths(conn.ts)]
    ELSE [at |-> "now"]

\* the body of the loop over enumerate(nslkdd_records): the document of
\* record i takes its connection from list(self.connections.keys())[i]
enriched(record, i, conns) ==
    IF i <= Len(conns)
    THEN [record |-> record,
          timestamp |-> es_timestamp(conns[i]),
          src_ip |-> conns[i].orig_h,
          dst_ip |-> conns[i].resp_h,
          bytes_in |-> conns[i].orig_bytes,
          bytes_out |-> conns[i].resp_bytes,
          conn_uid |-> conns[i].uid,
          conn_state_desc |-> get_conn_state_description(conns[i].conn_state)]
    ELSE [record |-> record,
          timestamp |-> [at |-> "now"],
          src_ip |-> None, dst_ip |-> None, bytes_in |-> None, bytes_out |-> None,
          conn_uid |-> None,
          conn_state_desc |-> get_conn_state_description(None)]

enrich_data_for_elasticsearch(nslkdd_records, conns) ==
    [i \in 1..Len(nslkdd_records) |-> enriched(nslkdd_records[i], i, conns)]

\* A map ingested from a conn log, before its features are computed.
DocInit ==
    /\ RestIdle
    /\ OthersIdle
    /\ pc = "compute"
    /\ \E b \in Bodies(PassConnLines, MaxPassLines) :
          connections =
              ConnLoop(<<ConnFields>> \o b, 1, 1 + Len(b), NoHeader, <<>>, 0).connections

\* store_in_elasticsearch: the documents of the records just computed
EnrichForElasticsearch ==
    /\ pc = "written"
    /\ es_records' = enrich_data_for_elasticsearch(csv, connections)
    /\ pc' = "documents"
    /\ UNCHANGED <<spool, disk, csv, file_positions, known_files,
                   consecutive_empty_checks, connections, new_connections,
                   log_files_to_check, hvars, output_file, sunk, predictor,
                   verifier, consumers, poller, reader>>

DocNext == Compute \/ EnrichForElasticsearch

DocSpec == DocInit /\ [][DocNext]_vars

\* ------------------------------------------- the consumers of the model
\* The model is a binary classifier: predict() gives the class 0 or 1,
\* predict_proba() the probabilities of class 0 and of class 1, here in
\* tenths. prob[1] and prob[2] are Python's prob[0] and prob[1].
ModelOutputs ==
    [pred : {0, 1}, prob : {<<p, 10 - p>> : p \in 0..10}]

\* realtime_predictor.py: prediction_info of the console predictor
console_prediction_info(pred, prob) ==
    [prediction |-> IF pred = 0 THEN "NORMAL" ELSE "ATTACK",
     confidence |-> IF pred = 0 THEN prob[1] ELSE prob[2]]

\* realtime_predictor_web.py: prediction_info of the web predictor
web_prediction_info(pred, prob) ==
    [prediction |-> IF pred = 1 THEN "NORMAL" ELSE "ATTACK",
     confidence |-> IF pred = 1 THEN prob[2] ELSE prob[1]]

\* app.py: attack_pred and attack_prob of predict_attacks
predict_attacks(pred, prob) ==
    [prediction |-> IF pred = 0 THEN "normal" ELSE "attack",
     confidence |-> Max(prob[1], prob[2])]

LabelInit ==
    /\ CoreIdle
    /\ output_file = NoFile
    /\ sunk = [fresh |-> TRUE, records |-> <<>>, last |-> "none"]
    /\ PredictorIdle
    /\ VerifierIdle
    /\ es_records = <<>>
    /\ PollerIdle
    /\ ReaderIdle
    /\ model_output \in ModelOutputs
    /\ reports = [console |-> NoReport, web |-> NoReport, dashboard |-> NoReport]

LabelFrame ==
    UNCHANGED <<core, output_file, sunk, predictor, verifier, es_records,
                model_output, poller, reader>>

ConsolePredict ==
    /\ reports.console = NoReport
    /\ reports' = [reports EXCEPT !.console =
                      console_prediction_info(model_output.pred, model_output.prob)]
    /\ LabelFrame

WebPredict ==
    /\ reports.web = NoReport
    /\ reports' = [reports EXCEPT !.web =
                      web_prediction_info(model_output.pred, model_output.prob)]
    /\ LabelFrame

DashboardPredict ==
    /\ reports.dashboard = NoReport
    /\ reports' = [reports EXCEPT !.dashboard =
                      predict_attacks(model_output.pred, model_output.prob)]
    /\ LabelFrame

LabelNext == ConsolePredict \/ WebPredict \/ DashboardPredict

LabelSpec == LabelInit /\ [][LabelNext]_vars

\* -------------------------------------------- the predictors' poll loop
\* monitor_file of realtime_predictor_web.py; the loop of realtime_predictor.py
\* is the same text without the queue. The CSV is the file the appender of
\* the converter writes while the loop runs.

\* The bytes of a row: its cells, the commas between them and "\r\n".
RowBytes(row) == TokBytes(row) + 1

\* os.path.getsize(self.input_file)
RECURSIVE CsvSize(_)
CsvSize(rows) ==
    IF rows = <<>> THEN 0 ELSE RowBytes(Head(rows)) + CsvSize(Tail(rows))

\* f.seek(position); f.readlines(): the lines from that byte to the end of
\* the file as it is when it is read, each with whether it is a whole row
readlines(rows, position) ==
    LET start(i) == CsvSize(SubSeq(rows, 1, i - 1))
        from(i) == [line |-> i, data |-> rows[i], whole |-> start(i) >= position]
        rest == {i \in 1..Len(rows) : start(i) + RowBytes(rows[i]) > position}
    IN [k \in 1..Cardinality(rest) |-> from(Len(rows) - Cardinality(rest) + k)]

\* if self.last_position == 0 and new_lines[0].startswith('duration')
skip_header(new_lines, position) ==
    IF position = 0 /\ new_lines # <<>> /\ Head(new_lines).data[1] = <<"duration">>
    THEN Tail(new_lines) ELSE new_lines

\* the loop over the predictions of the new rows
RECURSIVE append_all(_, _, _)
append_all(history, infos, maxlen) ==
    IF infos = <<>> THEN history
    ELSE append_all(append(history, Head(infos), maxlen), Tail(infos), maxlen)

MonitorInit ==
    /\ RestIdle
    /\ connections = <<>>
    /\ pc = "poll"
    /\ output_file \in SinkFiles
    /\ sunk = [fresh |-> output_file = NoFile, records |-> <<>>, last |-> "none"]
    /\ PredictorIdle
    /\ ExtrasIdle

\* current_size = os.path.getsize(self.input_file), and the test against
\* last_position; a missing file raises and the loop starts over
Poll ==
    /\ pc = "poll"
    /\ output_file.exists
    /\ current_size' = CsvSize(output_file.rows)
    /\ pc' = IF current_size' > last_position THEN "read" ELSE "poll"
    /\ UNCHANGED <<spool, disk, csv, file_positions, known_files,
                   consecutive_empty_checks, connections, new_connections,
                   log_files_to_check, hvars, output_file, sunk, predictor,
                   verifier, es_records, consumers, last_position, reader>>

\* the body of the test: read, predict, store the sampled size; pd.read_csv
\* of no line raises and the handler starts the loop over
ReadNewLines ==
    /\ pc = "read"
    /\ LET new_lines == skip_header(readlines(output_file.rows, last_position),
                                    last_position)
       IN IF new_lines = <<>>
          THEN UNCHANGED <<predictions_history, prediction_queue, last_position>>
          ELSE /\ predictions_history' =
                      append_all(predictions_history, new_lines, max_history)
               /\ prediction_queue' = prediction_queue \o new_lines
               /\ last_position' = current_size
    /\ pc' = "poll"
    /\ UNCHANGED <<spool, disk, csv, file_positions, known_files,
                   consecutive_empty_checks, connections, new_connections,
                   log_files_to_check, hvars, output_file, sunk, max_history,
                   verifier, es_records, consumers, current_size, reader>>

MonitorNext == Poll \/ ReadNewLines \/ SinkAppend

MonitorSpec == MonitorInit /\ [][MonitorNext]_vars

\* ------------------------------------------ the dashboard and the monitor
\* realtime_predictor_web.py: main() starts monitor_file in a thread and
\* runs the update loop itself; both use predictor.predictions_history, with
\* no lock. A step is what one thread does between two thread switches: one
\* call on the deque, or one item of an iteration over it. An iterator over
\* a deque raises RuntimeError at its next item when the deque has been
\* changed since the iterator was made.
DashboardInit ==
    /\ CoreIdle
    /\ output_file = NoFile
    /\ sunk = [fresh |-> TRUE, records |-> <<>>, last |-> "none"]
    /\ max_history \in 1..MaxHistory
    /\ predictions_history = <<>>
    /\ prediction_queue = <<>>
    /\ ExtrasIdle

DashboardFrame ==
    UNCHANGED <<core, output_file, sunk, max_history, verifier, es_records,
                consumers, poller>>

InCall == reader.pc \in {"len", "attacks", "confidence"}
Iterating == reader.pc \in {"attacks", "confidence"} /\ reader.i > 0

\* the monitor thread: predictions_history.append and prediction_queue.put
WorkerAppend ==
    /\ Len(prediction_queue) < MaxQueue
    /\ \E prediction_info \in Predictions :
          /\ predictions_history' =
                append(predictions_history, prediction_info, max_history)
          /\ prediction_queue' = Append(prediction_queue, prediction_info)
    /\ reader' = [reader EXCEPT
                     !.mutated = Iterating,
                     !.instants = IF InCall THEN @ \cup {predictions_history'} ELSE @]
    /\ DashboardFrame

\* the update loop: the queue is emptied, then update_stats is called
DashboardDrain ==
    /\ reader.pc = "drain"
    /\ prediction_queue' = <<>>
    /\ reader' = [reader EXCEPT !.pc = "test"]
    /\ UNCHANGED predictions_history
    /\ DashboardFrame

\* get_statistics: if not self.predictions_history: return the message
StatsTest ==
    /\ reader.pc = "test"
    /\ reader' = [reader EXCEPT
                     !.pc = IF predictions_history = <<>> THEN "drain" ELSE "len",
                     !.instants = IF predictions_history = <<>> THEN {}
                                  ELSE {predictions_history}]
    /\ UNCHANGED <<predictions_history, prediction_queue>>
    /\ DashboardFrame

\* total = len(self.predictions_history)
StatsTotal ==
    /\ reader.pc = "len"
    /\ reader' = [reader EXCEPT !.pc = "attacks", !.total = Len(predictions_history),
                                !.attacks = 0, !.i = 0]
    /\ UNCHANGED <<predictions_history, prediction_queue>>
    /\ DashboardFrame

\* one step of sum(... for p in self.predictions_history ...): the iterator
\* is made (i = 0), or gives its next item, or ends, or raises
Iterate(counting, after) ==
    IF reader.i = 0
    THEN reader' = [reader EXCEPT !.i = 1, !.counter = Len(predictions_history),
                                  !.mutated = FALSE]
    ELSE IF reader.mutated
    THEN reader' = [reader EXCEPT !.pc = "error"]
    ELSE IF reader.i > reader.counter
    THEN reader' = [reader EXCEPT !.pc = after, !.i = 0]
    ELSE reader' = [reader EXCEPT
                       !.i = @ + 1,
                       !.attacks = IF counting /\ predictions_history[reader.i].prediction = "ATTACK"
                                   THEN @ + 1 ELSE @]

\* attacks = sum(1 for p in self.predictions_history if p['prediction'] == 'ATTACK')
StatsAttacks ==
    /\ reader.pc = "attacks"
    /\ Iterate(TRUE, "confidence")
    /\ UNCHANGED <<predictions_history, prediction_queue>>
    /\ DashboardFrame

\* sum(p['confidence'] for p in self.predictions_history) / total
StatsConfidence ==
    /\ reader.pc = "confidence"
    /\ Iterate(FALSE, "return")
    /\ UNCHANGED <<predictions_history, prediction_queue>>
    /\ DashboardFrame

\* the statistics are shown, or the error is (except Exception: st.error),
\* and the loop starts over
StatsShown ==
    /\ reader.pc \in {"return", "error"}
    /\ reader' = AtDrain
    /\ UNCHANGED <<predictions_history, prediction_queue>>
    /\ DashboardFrame

DashboardNext ==
    \/ WorkerAppend
    \/ DashboardDrain
    \/ StatsTest
    \/ StatsTotal
    \/ StatsAttacks
    \/ StatsConfidence
    \/ StatsShown

DashboardSpec == DashboardInit /\ [][DashboardNext]_vars

\* ------------------------------------------------------------ properties
ScanStep == pc = "scan" /\ pc' = "extract"
ConnReadStep == pc = "read_conn" /\ pc' = "read_proto" /\ ConnLog \in DOMAIN spool
ProtoReadStep(f) ==
    /\ pc = "read_proto" /\ pc' = "read_proto"
    /\ f \in log_files_to_check /\ f \notin log_files_to_check'
AtReturn ==
    pc = "return" \/ (pc = "read_proto" /\ log_files_to_check \ {ConnLog} = {})

\* The field names declared for line i: those of the last #fields line above it.
DeclaredFor(lines, i) ==
    LET above == {h \in 1..(i - 1) : lines[h].kind = "fields"}
    IN IF above = {} THEN NoHeader
       ELSE lines[CHOOSE h \in above : \A k \in above : k <= h].tok

\* Line i is a well-formed data line: more than one token, a UID, and a
\* timestamp the validation accepts, read with the declared field names.
WellFormed(lines, i) ==
    LET header == DeclaredFor(lines, i)
        record == MakeRecord(header, lines[i].tok)
    IN /\ lines[i].kind = "data"
       /\ header # NoHeader
       /\ Len(lines[i].tok) > 1
       /\ <<"uid">> \in DOMAIN record
       /\ Truthy(record[<<"uid">>])
       /\ TsValid(Get(record, <<"ts">>))

UidOf(lines, i) == MakeRecord(DeclaredFor(lines, i), lines[i].tok)[<<"uid">>]

InMap(conns, uid) == \E k \in 1..Len(conns) : conns[k].uid = uid

\* C1: a scan that reads conn.log from a non-zero offset lying after the
\* #fields line turns every well-formed data line beyond the offset into a
\* Connection of that scan's map.
C1_AppendedLinesParsed ==
    [][ConnReadStep /\ ~Raises(spool[ConnLog]) =>
          LET lines == spool[ConnLog]
              start == start_line(file_positions, ConnLog)
          IN (start > 0 /\ \E h \in 1..start : h <= Len(lines) /\ lines[h].kind = "fields")
             => \A i \in (start + 1)..Len(lines) :
                   WellFormed(lines, i) => InMap(connections', UidOf(lines, i))]_vars

\* C2: a second call right after a first one, with no file changed in
\* between, returns zero new connections and the ledger of the first call
\* (which the loop has saved to the ledger file in the meantime).
C2_SecondCallIdle ==
    (AtReturn /\ quiet /\ ~did_reset)
        => new_connections = 0 /\ file_positions = disk.content

RowsOf(uid) == Cardinality({r \in 1..Len(csv) : csv[r] = uid})

OnlyLineOf(lines, i) ==
    \A j \in 1..Len(lines) :
        (j # i /\ WellFormed(lines, j)) => UidOf(lines, j) # UidOf(lines, i)

\* C3: over scans of append-only logs that decode, every connection line of
\* conn.log (well-formed, its UID on no other line) has at most one row in
\* the CSV, and exactly one once the ledger has passed its line and the cycle
\* is over.
C3_OneRowPerLine ==
    (pc = "sleep" /\ append_only /\ ConnLog \in DOMAIN spool
        /\ ~Raises(spool[ConnLog])) =>
        LET lines == spool[ConnLog]
        IN \A i \in 1..Len(lines) :
              (WellFormed(lines, i) /\ OnlyLineOf(lines, i)) =>
                  /\ RowsOf(UidOf(lines, i)) <= 1
                  /\ i <= start_line(file_positions, ConnLog)
                        => RowsOf(UidOf(lines, i)) = 1

LastThreeEmpty ==
    Len(scan_history) = EmptyLimit /\ \A i \in 1..EmptyLimit : scan_history[i].empty

FullReset ==
    /\ did_reset'
    /\ \A f \in DOMAIN file_positions' : file_positions'[f] = 0
    /\ consecutive_empty_checks' = 0

\* C4 as stated: whenever the last three cycles each reported zero new
\* connections, the next cycle begins with the full reset.
C4_ResetAfterAnyThreeEmpty ==
    [][ScanStep /\ LastThreeEmpty => FullReset]_vars

\* The three empty cycles count from the last restart of the counter: a
\* cycle that began with the reset counts, the cycles before it do not.
CountedThreeEmpty ==
    /\ LastThreeEmpty
    /\ ~scan_history[2].reset
    /\ ~scan_history[3].reset

\* C4 amended: a cycle begins with the full reset (every offset zero, the
\* counter back at zero) exactly when the three cycles before it each
\* reported zero new connections and none of the last two of them began with
\* a reset; a cycle with new connections leaves the counter at zero.
C4_ResetAfterThreeCounted ==
    [][/\ ScanStep => /\ did_reset' <=> CountedThreeEmpty
                      /\ did_reset' => FullReset
       /\ (pc = "features" /\ pc' = "sleep" /\ new_connections > 0)
             => consecutive_empty_checks' = 0]_vars

C4_Witness ==
    /\ pc = "extract"
    /\ did_reset
    /\ file_positions # EmptyLedger
    /\ \A f \in DOMAIN file_positions : file_positions[f] = 0

\* C5: after the SCAN step every file outside the previously known set has
\* offset 0 and every previously known file that is gone has no entry.
C5_ScanDeltas ==
    [][ScanStep =>
          /\ \A f \in DOMAIN spool \ known_files :
                f \in DOMAIN file_positions' /\ file_positions'[f] = 0
          /\ \A f \in known_files \ DOMAIN spool :
                f \notin DOMAIN file_positions']_vars

\* C6: a scan that begins with a recorded offset above the file's size by
\* more than the tolerance resets that offset to 0 (and so rereads the file).
C6_StaleOffsetReset ==
    [][ScanStep =>
          \A f \in DOMAIN file_positions \cap DOMAIN spool :
             file_positions[f] > FileSize(spool[f]) + Tolerance
                => file_positions'[f] = 0]_vars

\* C7: a read that does not raise, of a file with at least as many lines as
\* its offset, leaves the ledger entry at the file's line count; conn.log
\* and the protocol logs alike.
C7_LedgerAdvances ==
    [][/\ (ConnReadStep /\ ~Raises(spool[ConnLog])
             /\ Len(spool[ConnLog]) >= start_line(file_positions, ConnLog))
          => /\ ConnLog \in DOMAIN file_positions'
             /\ file_positions'[ConnLog] = Len(spool[ConnLog])
       /\ \A f \in LogFiles \ {ConnLog} :
             (ProtoReadStep(f) /\ ~Raises(spool[f])
                /\ Len(spool[f]) >= start_line(file_positions, f))
             => /\ f \in DOMAIN file_positions'
                /\ file_positions'[f] = Len(spool[f])]_vars

C7_Witness ==
    /\ AtReturn
    /\ DOMAIN spool = LogFiles
    /\ \A f \in LogFiles : ~Raises(spool[f])
    /\ quiet
    /\ Len(spool[ConnLog]) = MaxLines
    /\ \A f \in LogFiles : f \in DOMAIN file_positions /\ file_positions[f] = Len(spool[f])

\* C8: in every cycle, with or without files or new connections, the ledger
\* file holds the in-memory ledger once the read is over and until the sleep
\* ends.
C8_SavedEveryCycle ==
    pc \in {"features", "sleep"} => disk = Dumped(file_positions)

C8_Witness ==
    /\ pc = "features"
    /\ DOMAIN spool = {}
    /\ new_connections = 0
    /\ file_positions # EmptyLedger
    /\ disk = Dumped(file_positions)

\* C9: when the loop has ended, by Ctrl+C or by an error leaving the cycle,
\* the ledger file holds the ledger the process held.
C9_SavedAtExit ==
    pc = "exited" => disk = Dumped(file_positions)

\* Ctrl+C between the read of conn.log and the save of the cycle
C9_Witness ==
    /\ pc = "exited"
    /\ ended_at = "read_proto"
    /\ ConnLog \in DOMAIN file_positions
    /\ file_positions[ConnLog] = MaxLines
    /\ disk = Dumped(file_positions)

\* C10: the ledger file always holds a complete document (or does not exist
\* yet): never an empty or a partial one.
C10_NeverTorn ==
    disk.state \in {"absent", "complete"}

\* ------------------------------------------- properties of the features
\* The connections in the order the feature loop scans them.
Scanned == sorted_connections(connections)

\* Connection j lies in the inclusive window [ts - 2, ts] of connection i.
Within(sorted, j, i) ==
    /\ get_timestamp(sorted[j]) + Window >= get_timestamp(sorted[i])
    /\ get_timestamp(sorted[j]) <= get_timestamp(sorted[i])

\* The same-host-pair window of connection i: the connections of the host
\* index scanned so far with its pair of hosts, inside its time window.
HostWindow(sorted, i) ==
    {j \in 1..i : /\ Truthy(sorted[j].orig_h)
                  /\ sorted[j].orig_h = sorted[i].orig_h
                  /\ sorted[j].resp_h = sorted[i].resp_h
                  /\ Within(sorted, j, i)}

\* The same-service window of connection i.
SrvWindow(sorted, i) ==
    {j \in 1..i : /\ Truthy(sorted[j].service)
                  /\ sorted[j].service = sorted[i].service
                  /\ Within(sorted, j, i)}

InState(sorted, window, state) == {j \in window : sorted[j].conn_state = state}

\* rate = num / den
RateIs(rate, num, den) == rate.num * den = num * rate.den
RateInUnit(rate) == rate.den > 0 /\ 0 <= rate.num /\ rate.num <= rate.den

\* C11: for every connection, count is the number of connections of the
\* same-host-pair window, the connection itself included; three connections
\* to one destination at 100.0, 100.5 and 103.0 get the counts 1, 2 and 1.
C11_CountIsHostWindow ==
    pc = "written" =>
        /\ \A i \in 1..Len(csv) :
              csv[i].count = Cardinality(HostWindow(Scanned, i) \cup {i})
        /\ ( /\ [i \in 1..Len(Scanned) |-> Scanned[i].ts] = <<Ts100, Ts100_5, Ts103>>
             /\ \A i \in 1..Len(Scanned) :
                   Scanned[i].orig_h = H1 /\ Scanned[i].resp_h = H2 )
           => [i \in 1..Len(csv) |-> csv[i].count] = <<1, 2, 1>>

\* C12: for every connection, srv_count is the number of connections of the
\* same-service window, the connection itself included.
C12_SrvCountIsSrvWindow ==
    pc = "written" =>
        \A i \in 1..Len(csv) :
            csv[i].srv_count = Cardinality(SrvWindow(Scanned, i) \cup {i})

\* C13: every emitted record has count >= 1 and srv_count >= 1, whichever
\* fields of the connection are absent.
C13_CountsItself ==
    pc = "written" =>
        \A i \in 1..Len(csv) : csv[i].count >= 1 /\ csv[i].srv_count >= 1

\* C14 as stated: the three rates lie in [0,1], and each is 0.0 exactly when
\* its window is empty.
C14_ZeroIffWindowEmpty ==
    pc = "written" =>
        \A i \in 1..Len(csv) :
            /\ RateInUnit(csv[i].serror_rate)
            /\ RateInUnit(csv[i].rerror_rate)
            /\ RateInUnit(csv[i].srv_serror_rate)
            /\ csv[i].serror_rate.num = 0 <=> HostWindow(Scanned, i) = {}
            /\ csv[i].rerror_rate.num = 0 <=> HostWindow(Scanned, i) = {}
            /\ csv[i].srv_serror_rate.num = 0 <=> SrvWindow(Scanned, i) = {}

\* C14 as amended: the three rates lie in [0,1], and each is 0.0 whenever
\* its window holds no connection in the state it counts, in particular
\* whenever the window is empty.
C14_ZeroWhenNoneInState ==
    pc = "written" =>
        \A i \in 1..Len(csv) :
            /\ RateInUnit(csv[i].serror_rate)
            /\ RateInUnit(csv[i].rerror_rate)
            /\ RateInUnit(csv[i].srv_serror_rate)
            /\ InState(Scanned, HostWindow(Scanned, i), S0) = {}
                  => csv[i].serror_rate.num = 0
            /\ InState(Scanned, HostWindow(Scanned, i), REJ) = {}
                  => csv[i].rerror_rate.num = 0
            /\ InState(Scanned, SrvWindow(Scanned, i), S0) = {}
                  => csv[i].srv_serror_rate.num = 0

\* A connection outside every index (empty windows, rates 0.0) next to one
\* whose window is half in the S0 state.
C14_Witness ==
    /\ pc = "written"
    /\ \E i \in 1..Len(csv) :
          /\ HostWindow(Scanned, i) = {}
          /\ csv[i].serror_rate.num = 0
    /\ \E i \in 1..Len(csv) :
          /\ Cardinality(HostWindow(Scanned, i)) = 2
          /\ RateIs(csv[i].serror_rate, 1, 2)

\* C15: serror_rate and rerror_rate are the share of S0 and of REJ
\* connections in the same-host-pair window, srv_serror_rate the share of S0
\* connections in the same-service window, and these windows are the sets
\* that count and srv_count count.
C15_RatesAreShares ==
    pc = "written" =>
        \A i \in 1..Len(csv) :
            LET host == HostWindow(Scanned, i) \cup {i}
                srv == SrvWindow(Scanned, i) \cup {i}
            IN /\ RateIs(csv[i].serror_rate,
                         Cardinality(InState(Scanned, host, S0)), Cardinality(host))
               /\ RateIs(csv[i].rerror_rate,
                         Cardinality(InState(Scanned, host, REJ)), Cardinality(host))
               /\ RateIs(csv[i].srv_serror_rate,
                         Cardinality(InState(Scanned, srv, S0)), Cardinality(srv))
               /\ csv[i].count = Cardinality(host)
               /\ csv[i].srv_count = Cardinality(srv)

\* C16: the computation returns one record per connection of the map, in
\* ascending timestamp order, equal timestamps in the order of the map.
C16_OneRecordPerConnectionInOrder ==
    pc \in {"written", "raised"} =>
        /\ Len(csv) = Len(connections)
        /\ {csv[i].uid : i \in 1..Len(csv)}
              = {connections[k].uid : k \in 1..Len(connections)}
        /\ \A i, j \in 1..Len(csv) :
              i < j =>
                LET a == IndexOf(connections, csv[i].uid)
                    b == IndexOf(connections, csv[j].uid)
                IN \/ get_timestamp(connections[a]) < get_timestamp(connections[b])
                   \/ /\ get_timestamp(connections[a]) = get_timestamp(connections[b])
                      /\ a < b

\* --------------------------------------- properties of the correlation
Ingested == pc \in {"batch_enrich", "rt_enrich"}
EnrichStep == pc \in {"batch_enrich", "rt_enrich"} /\ pc' = "compute"

\* The record of data line i of a log, under the fields its first line declares.
RecordAt(lines, i) == MakeRecord(lines[1].tok, lines[i].tok)

\* The first line of the conn log that creates a Connection for the UID.
FirstSeen(lines, uid) ==
    CHOOSE i \in 2..Len(lines) :
        /\ RecordAt(lines, i)[<<"uid">>] = uid
        /\ TsValid(RecordAt(lines, i)[<<"ts">>])
        /\ \A j \in 2..(i - 1) :
              ~ ( /\ RecordAt(lines, j)[<<"uid">>] = uid
                  /\ TsValid(RecordAt(lines, j)[<<"ts">>]) )

\* C17: first-seen wins: after the ingestion of a pass the map holds one
\* Connection per UID, and its timestamp, hosts, service and state are those
\* of the first record that created it, whatever records with the same UID
\* came later.
C17_FirstSeenWins ==
    Ingested =>
        /\ \A k, m \in 1..Len(connections) :
              connections[k].uid = connections[m].uid => k = m
        /\ \A k \in 1..Len(connections) :
              LET first == RecordAt(spool[ConnLog],
                                    FirstSeen(spool[ConnLog], connections[k].uid))
              IN /\ connections[k].ts = first[<<"ts">>]
                 /\ connections[k].orig_h = first[<<"id.orig_h">>]
                 /\ connections[k].resp_h = first[<<"id.resp_h">>]
                 /\ connections[k].service = first[<<"service">>]
                 /\ connections[k].conn_state = first[<<"conn_state">>]

\* The records of the protocol log of the pass that carry the UID, in file order.
RECURSIVE RecordsOf(_, _, _)
RecordsOf(lines, i, uid) ==
    IF i > Len(lines) THEN <<>>
    ELSE IF RecordAt(lines, i)[<<"uid">>] = uid
         THEN <<RecordAt(lines, i)>> \o RecordsOf(lines, i + 1, uid)
         ELSE RecordsOf(lines, i + 1, uid)

\* C18: enrichment appends and never deduplicates: after enriching with a
\* protocol log each Connection's list for that protocol is its previous
\* list followed by the records of the log with its UID, in file order and
\* with duplicates; the other lists are unchanged and no Connection is
\* created for a UID the map does not hold.
C18_EnrichmentAppends ==
    [][EnrichStep =>
          /\ Len(connections') = Len(connections)
          /\ \A k \in 1..Len(connections) :
                /\ connections'[k].uid = connections[k].uid
                /\ \A t \in ProtoTypes :
                      connections'[k].enrich[t] =
                          IF t = LogType(PassProto)
                          THEN connections[k].enrich[t]
                                 \o RecordsOf(spool[PassProto], 2, connections[k].uid)
                          ELSE connections[k].enrich[t]]_vars

\* A pass enriched a Connection with the same record twice, from a log that
\* also holds a record whose UID is not in the map.
C18_Witness ==
    /\ pc = "compute"
    /\ LogType(PassProto) = <<"http">>
    /\ \E k \in 1..Len(connections) :
          /\ Len(connections[k].enrich[<<"http">>]) = 2
          /\ connections[k].enrich[<<"http">>][1] = connections[k].enrich[<<"http">>][2]
    /\ \E i \in 2..Len(spool[PassProto]) :
          IndexOf(connections, RecordAt(spool[PassProto], i)[<<"uid">>]) = 0

\* C19: enrichment changes a Connection's service only when the service is
\* unset and the protocol is one of http, dns, ssh, ssl, ftp, smtp, and then
\* sets it to the protocol; in batch and in real-time enrichment.
C19_ServiceOnlyFromRecognized ==
    [][EnrichStep =>
          \A k \in 1..Len(connections) :
              connections'[k].service # connections[k].service =>
                  /\ ~Truthy(connections[k].service)
                  /\ LogType(PassProto) \in RecognizedServices
                  /\ connections'[k].service = LogType(PassProto)]_vars

\* A timestamp that is a non-negative decimal number: digits with at most
\* one point.
NonNegativeDecimal(ts) ==
    /\ Truthy(ts)
    /\ \A i \in 1..Len(ts) : ts[i] \in Digits \cup {"."}
    /\ Cardinality({i \in 1..Len(ts) : ts[i] = "."}) <= 1
    /\ \E i \in 1..Len(ts) : ts[i] \in Digits

\* C20: no Connection of the map has an invalid timestamp: every timestamp
\* in the map is a non-empty non-negative decimal number without null byte.
C20_NoInvalidTimestamp ==
    \A k \in 1..Len(connections) : NonNegativeDecimal(connections[k].ts)

\* ------------------------------------------- properties of a whole pass
\* the pass is the batch run: only the real-time pass lists a directory
BatchPass == log_files_to_check = {}

\* the UIDs the conn log of the pass gives a Connection to
ConnUids ==
    LET lines == spool[ConnLog]
    IN {RecordAt(lines, i)[<<"uid">>] :
           i \in {j \in 2..Len(lines) : TsValid(RecordAt(lines, j)[<<"ts">>])}}

\* C21: a log file whose read fails never aborts the pass: the failure is
\* reported and the other file of the pass is still processed, so the pass
\* never ends at the failing read, and when only the protocol log fails the
\* Connections of the conn log are all in the map when features are computed.
C21_FailingFileNeverAborts ==
    /\ pc # "aborted"
    /\ (pc = "compute" /\ Raises(spool[PassProto]) /\ ~Raises(spool[ConnLog]))
          => \A uid \in ConnUids : IndexOf(connections, uid) # 0

\* C22: feature computation never raises: for every map the ingestion of a
\* pass produces, compute_nslkdd_features returns its records.
C22_FeaturesNeverRaise == pc # "raised"

ComputeStep == pc = "compute" /\ pc' \in {"written", "raised"}
RecomputeStep == pc = "written" /\ pc' = "recomputed"

C29_BatchRunCompletes ==
    (BatchPass /\ pc \in {"aborted", "raised", "written"})
        => (pc = "written" /\ Len(csv) = Len(connections))

\* ------------------------------------------------ properties of the sink
IsPrefix(a, b) == Len(a) <= Len(b) /\ SubSeq(b, 1, Len(a)) = a

Schema ==
    <<"duration", "protocol_type", "service", "flag", "src_bytes", "dst_bytes",
      "wrong_fragment", "hot", "logged_in", "num_compromised", "count",
      "srv_count", "serror_rate", "srv_serror_rate", "rerror_rate">>

\* the rate a cell reads back as
ReadRate(cell) ==
    LET bar == CHOOSE i \in 1..Len(cell) : cell[i] = "/"
    IN [num |-> IntVal(SubSeq(cell, 1, bar - 1)),
        den |-> IntVal(SubSeq(cell, bar + 1, Len(cell)))]

\* reading the cell back gives the value the record has for the field
ReadsBack(cell, field, record) ==
    IF field \in {"src_bytes", "dst_bytes", "wrong_fragment", "hot",
                  "num_compromised", "count", "srv_count"}
    THEN IsDigit(cell) /\ IntVal(cell) = record[field]
    ELSE IF field \in {"serror_rate", "srv_serror_rate", "rerror_rate"}
    THEN /\ \E i \in 1..Len(cell) : cell[i] = "/"
         /\ RateIs(record[field], ReadRate(cell).num, ReadRate(cell).den)
    ELSE cell = record[field]

\* C24: after any sequence of calls of the appender on a file that was
\* absent at first, the file is one header row with the 15 fields of the
\* schema followed by one row per record written, in the order written, each
\* with its fields in schema order reading back as the record's values.
C24_AppendRoundTrip ==
    (sunk.fresh /\ sunk.last = "append") =>
        /\ Len(output_file.rows) = 1 + Len(sunk.records)
        /\ Head(output_file.rows) = [i \in 1..15 |-> <<Schema[i]>>]
        /\ \A k \in 1..Len(sunk.records) :
              /\ Len(output_file.rows[k + 1]) = 15
              /\ \A i \in 1..15 :
                    ReadsBack(output_file.rows[k + 1][i], Schema[i], sunk.records[k])

\* three records were appended, in at least two calls, to a file absent at first
C24_Witness ==
    /\ sunk.fresh
    /\ sunk.last = "append"
    /\ Len(sunk.records) = MaxSunk
    /\ \E k \in 1..Len(sunk.records) : sunk.records[k].count = 2

\* ------------------------------------------ properties of one record
\* the Connection a record of the result was computed from
ConnOf(record) == connections[IndexOf(connections, record.uid)]

KnownStates ==
    {<<"S0">>, <<"SF">>, <<"REJ">>, <<"S1">>, <<"S2">>, <<"S3">>, <<"RSTO">>,
     <<"RSTR">>, <<"RSTOS0">>, <<"SH">>, <<"OTH">>}

\* C25: the emitted service is the value of the translation table for the
\* Connection's service (https gives http_443, dns gives domain) and other
\* when the service is absent or not in the table; the emitted flag is the
\* Connection's state when it is one of the 11 known codes, OTH otherwise.
C25_StaticTranslation ==
    pc = "written" =>
        \A k \in 1..Len(csv) :
            LET conn == ConnOf(csv[k])
            IN /\ conn.service \in DOMAIN service_mapping
                    => csv[k].service = service_mapping[conn.service]
               /\ conn.service = <<"https">> => csv[k].service = <<"http_443">>
               /\ conn.service = <<"dns">> => csv[k].service = <<"domain">>
               /\ conn.service \notin DOMAIN service_mapping
                    => csv[k].service = <<"other">>
               /\ csv[k].flag = IF conn.conn_state \in KnownStates
                                THEN conn.conn_state ELSE <<"OTH">>

\* records were computed for a translated service with an unknown state
C25_Witness ==
    /\ pc = "written"
    /\ \E k \in 1..Len(csv) :
          /\ ConnOf(csv[k]).service = <<"https">>
          /\ ConnOf(csv[k]).conn_state = <<"RSTX">>
          /\ csv[k].service = <<"http_443">>
          /\ csv[k].flag = <<"OTH">>

AuthenticatedServices ==
    {<<"ssh">>, <<"ftp">>, <<"smtp">>, <<"pop3">>, <<"imap">>, <<"telnet">>}

\* some http record of the Connection carries a user name or an
\* Authorization header
CarriesCredentials(conn) ==
    \E k \in 1..Len(conn.enrich[<<"http">>]) :
        LET req == conn.enrich[<<"http">>][k]
        IN \/ Get(req, <<"username">>) \notin {None, <<>>}
           \/ \E i \in 1..Len(Get(req, <<"request_headers">>)) :
                 Get(req, <<"request_headers">>)[i] = "Authorization"

\* C26: logged_in is 1 exactly when the Connection's service is an
\* authenticated service and its state is SF, or one of its http records
\* carries a user name or an Authorization header; it is 0 otherwise, and no
\* ssh or ftp record turns an authenticated SF Connection into 0.
C26_LoggedIn ==
    pc = "written" =>
        \A k \in 1..Len(csv) :
            LET conn == ConnOf(csv[k])
            IN /\ csv[k].logged_in \in {<<"0">>, <<"1">>}
               /\ csv[k].logged_in = <<"1">>
                    <=> \/ /\ conn.service \in AuthenticatedServices
                           /\ conn.conn_state = <<"SF">>
                        \/ CarriesCredentials(conn)

\* an ssh Connection in state SF whose only ssh record reports a failed
\* authentication got logged_in 1
C26_Witness ==
    /\ pc = "written"
    /\ \E k \in 1..Len(csv) :
          LET conn == ConnOf(csv[k])
          IN /\ conn.service = <<"ssh">>
             /\ conn.conn_state = <<"SF">>
             /\ Len(conn.enrich[<<"ssh">>]) = 1
             /\ Get(conn.enrich[<<"ssh">>][1], <<"auth_success">>) = <<"false">>
             /\ ~CarriesCredentials(conn)
             /\ csv[k].logged_in = <<"1">>

\* ----------------------------------------- properties of the scan cycle
UidsOf(conns) == {conns[k].uid : k \in 1..Len(conns)}

\* a data line of the log beyond the offset carries the UID
ReadBeyond(lines, start, uid) ==
    \E i \in (start + 1)..Len(lines) :
        /\ lines[i].kind = "data"
        /\ \E t \in 1..Len(lines[i].tok) : lines[i].tok[t] = uid

\* C27: every call of the real-time read path starts from an empty map: the
\* call empties it, the read of conn.log fills it only with Connections of
\* lines beyond the offset the cycle started from, nothing adds a Connection
\* afterwards, and the rows the cycle emits are those of this map; so no
\* window of the cycle can hold a Connection read only in an earlier cycle.
C27_MapResetEveryCycle ==
    [][ /\ pc = "extract" => connections' = <<>>
        /\ ConnReadStep =>
              /\ connections = <<>>
              /\ \A uid \in UidsOf(connections') :
                    ReadBeyond(spool[ConnLog], start_line(file_positions, ConnLog), uid)
        /\ pc \notin {"extract", "read_conn"} =>
              UidsOf(connections') \subseteq UidsOf(connections)
        /\ (pc = "features" /\ pc' = "sleep") =>
              \A r \in (Len(csv) + 1)..Len(csv') : InMap(connections, csv'[r]) ]_vars

\* a cycle computes features over a map that lacks a Connection for which
\* an earlier cycle emitted a row
C27_Witness ==
    /\ pc = "features"
    /\ new_connections > 0
    /\ connections # <<>>
    /\ \E r \in 1..Len(csv) : ~InMap(connections, csv[r])

\* -------------------------------- properties of the prediction history
\* a prediction arrived: it stands last on the queue
PredictStep == Len(prediction_queue') = Len(prediction_queue) + 1
Arrived == prediction_queue'[Len(prediction_queue')]

\* C30: the prediction history is a bounded first-in first-out buffer: its
\* length never exceeds max_history; an append below the capacity adds the
\* entry at the end, and an append to a full buffer (of capacity at least 1)
\* drops exactly the oldest entry and keeps the others in arrival order.
C30_HistoryIsBoundedFifo ==
    [][ /\ Len(predictions_history') <= max_history
        /\ PredictStep =>
              IF Len(predictions_history) < max_history
              THEN predictions_history' = Append(predictions_history, Arrived)
              ELSE max_history > 0 =>
                      predictions_history' =
                          Append(Tail(predictions_history), Arrived) ]_vars

\* more predictions than the capacity arrived since the queue was last
\* emptied: the history holds the latest ones, the first one is gone
C30_Witness ==
    /\ max_history = MaxHistory
    /\ Len(prediction_queue) > max_history
    /\ predictions_history =
          SubSeq(prediction_queue, Len(prediction_queue) - max_history + 1,
                 Len(prediction_queue))
    /\ prediction_queue[1] # predictions_history[1]

\* ------------------------------------------- properties of a failed read
\* the rows this cycle appends
FeaturesStep == pc = "features" /\ pc' = "sleep"
Emitted == {csv'[r] : r \in (Len(csv) + 1)..Len(csv')}

\* the UID stands on exactly one well-formed line of the log
OnOneLine(lines, uid) ==
    Cardinality({i \in 1..Len(lines) : WellFormed(lines, i) /\ UidOf(lines, i) = uid}) = 1

\* C33: a read that raises part-way leaves the state unchanged: the ledger
\* entry of the failed file keeps its value, the entries of the files read
\* successfully advance to their line counts, and a Connection parsed from
\* the failed file before the error is not emitted in one cycle and again in
\* the next (no cycle without reset appends a row for a line of a failing
\* conn.log that has a row already).
C33_FailedReadUnchanged ==
    [][ /\ (ConnReadStep /\ Raises(spool[ConnLog])) => file_positions' = file_positions
        /\ \A f \in LogFiles \ {ConnLog} :
              (ProtoReadStep(f) /\ Raises(spool[f])) => file_positions' = file_positions
        /\ (ConnReadStep /\ ~Raises(spool[ConnLog])) =>
              file_positions'[ConnLog] >= Len(spool[ConnLog])
        /\ (FeaturesStep /\ ConnLog \in DOMAIN spool /\ Raises(spool[ConnLog])
               /\ append_only /\ ~did_reset) =>
              \A uid \in Emitted :
                  OnOneLine(spool[ConnLog], uid) => RowsOf(uid) = 0 ]_vars

\* --------------------------------------- properties across scan cycles
\* line i of a protocol log is a record with the UID
EnrichmentLine(lines, i, uid) ==
    /\ lines[i].kind = "data"
    /\ DeclaredFor(lines, i) # NoHeader
    /\ Len(lines[i].tok) > 1
    /\ UidOf(lines, i) = uid

\* C35: enrichment is not lost across scan cycles: when a cycle computes the
\* FeatureVectors of its map, each Connection's list for a protocol holds
\* every record of that protocol's log with its UID, whichever cycle read
\* the record's line (the logs being readable and only appended to).
C35_EnrichmentNotLost ==
    (pc = "features" /\ new_connections > 0 /\ append_only
        /\ ConnLog \in DOMAIN spool /\ ~Raises(spool[ConnLog])) =>
        \A k \in 1..Len(connections) :
            \A f \in (DOMAIN spool) \ {ConnLog} :
                ~Raises(spool[f]) =>
                    \A i \in 1..Len(spool[f]) :
                        EnrichmentLine(spool[f], i, connections[k].uid) =>
                            \E m \in 1..Len(connections[k].enrich[LogType(f)]) :
                                connections[k].enrich[LogType(f)][m]
                                    = MakeRecord(DeclaredFor(spool[f], i), spool[f][i].tok)

\* C36: no consumed line is lost on a crash: at every instant every
\* well-formed line of conn.log that the ledger on disk marks as consumed
\* has a row in the output CSV.
C36_ConsumedLinesHaveRows ==
    (disk.state = "complete" /\ append_only /\ ConnLog \in DOMAIN spool
        /\ ConnLog \in DOMAIN disk.content) =>
        \A i \in 1..Len(spool[ConnLog]) :
            (i <= disk.content[ConnLog] /\ WellFormed(spool[ConnLog], i))
                => RowsOf(UidOf(spool[ConnLog], i)) >= 1


\* ------------------------------------ properties of counts against rates

\* C37: count and the host-pair error rates describe one window: a record
\* with count = 0 has serror_rate = 0 and rerror_rate = 0, and a record with
\* count > 0 has serror_rate * count and rerror_rate * count equal to the
\* numbers of S0 and REJ connections of the same-host-pair window; likewise
\* srv_count and srv_serror_rate for the same-service window.
C37_CountAndRatesAgree ==
    pc = "written" =>
        \A i \in 1..Len(csv) :
            /\ csv[i].count = 0 =>
                  csv[i].serror_rate.num = 0 /\ csv[i].rerror_rate.num = 0
            /\ csv[i].count > 0 =>
                  /\ RateIs(csv[i].serror_rate,
                            Cardinality(InState(Scanned, HostWindow(Scanned, i), S0)),
                            csv[i].count)
                  /\ RateIs(csv[i].rerror_rate,
                            Cardinality(InState(Scanned, HostWindow(Scanned, i), REJ)),
                            csv[i].count)
            /\ csv[i].srv_count = 0 => csv[i].srv_serror_rate.num = 0
            /\ csv[i].srv_count > 0 =>
                  RateIs(csv[i].srv_serror_rate,
                         Cardinality(InState(Scanned, SrvWindow(Scanned, i), S0)),
                         csv[i].srv_count)


\* ---------------------------------- properties of the verification pass

\* C32: verify_file_positions returns a ledger over the keys of its input,
\* with 0 for a file that is missing, whose offset is above its size by more
\* than 100, or that has more than 10 lines while offset / (size / lines) is
\* above 1.5 times the lines, and the input entry otherwise; the input
\* ledger is as it was.
C32_VerifyResetsAnomalies ==
    [][Verify =>
          /\ DOMAIN updated_positions' = DOMAIN file_positions
          /\ file_positions' = file_positions
          /\ \A f \in DOMAIN file_positions :
                updated_positions'[f] =
                    IF \/ ~files[f].exists
                       \/ file_positions[f] > files[f].file_size + 100
                       \/ /\ files[f].line_count > 10
                          /\ 2 * file_positions[f] * files[f].line_count
                                > 3 * files[f].line_count * files[f].file_size
                    THEN 0
                    ELSE file_positions[f] ]_vars


\* ------------------------------------------ properties of the documents
SourceOf(record) == connections[CHOOSE k \in 1..Len(connections) : connections[k].uid = record.uid]

\* C34: the document of the i-th record carries the UID, the timestamp, the
\* hosts, the byte counters and the state description of the connection
\* that record was computed from, whatever the order of the map against the
\* order of the timestamps.
C34_DocumentOfItsConnection ==
    pc = "documents" =>
        \A i \in 1..Len(es_records) :
            /\ es_records[i].record = csv[i]
            /\ es_records[i].conn_uid = csv[i].uid
            /\ es_records[i].timestamp = es_timestamp(SourceOf(csv[i]))
            /\ es_records[i].src_ip = SourceOf(csv[i]).orig_h
            /\ es_records[i].dst_ip = SourceOf(csv[i]).resp_h
            /\ es_records[i].bytes_in = SourceOf(csv[i]).orig_bytes
            /\ es_records[i].bytes_out = SourceOf(csv[i]).resp_bytes
            /\ es_records[i].conn_state_desc =
                  get_conn_state_description(SourceOf(csv[i]).conn_state)


\* ----------------------------------- properties of the model's consumers
IsAttack(report) == report.prediction \in {"ATTACK", "attack"}

\* C39: for every class and probability vector the model gives, the console
\* predictor, the web predictor and the dashboard agree on whether the row is
\* an attack, and the console and web predictors report the same confidence.
C39_ConsumersAgree ==
    /\ (reports.console # NoReport /\ reports.web # NoReport) =>
          /\ IsAttack(reports.console) <=> IsAttack(reports.web)
          /\ reports.console.confidence = reports.web.confidence
    /\ (reports.console # NoReport /\ reports.dashboard # NoReport) =>
          (IsAttack(reports.console) <=> IsAttack(reports.dashboard))
    /\ (reports.web # NoReport /\ reports.dashboard # NoReport) =>
          (IsAttack(reports.web) <=> IsAttack(reports.dashboard))


\* ---------------------------------------- properties of the poll loop
ReadStep == pc = "read" /\ Len(predictions_history') > Len(predictions_history)

\* C38: with the appender writing while the loop polls, the offset stored
\* by a read is the end of the last row that read consumed, every line it
\* predicts is a whole row, and no row is predicted twice.
C38_RowsPredictedOnce ==
    [][ReadStep =>
          /\ last_position' = CsvSize(output_file.rows)
          /\ \A k \in 1..Len(predictions_history') : predictions_history'[k].whole
          /\ \A k, l \in 1..Len(predictions_history') :
                predictions_history'[k].line = predictions_history'[l].line => k = l
      ]_vars


\* ------------------------------------- properties of the shared history
AttacksIn(history) ==
    Cardinality({k \in 1..Len(history) : history[k].prediction = "ATTACK"})

\* C31: no append of the monitor thread falls between the steps of a
\* traversal of the history by the dashboard, and the statistics a call
\* returns are those of the history as it was at one instant of the call.
C31_ReadsAreSnapshots ==
    [][ /\ predictions_history' # predictions_history => ~Iterating
        /\ (reader.pc # "return" /\ reader'.pc = "return") =>
              \E history \in reader.instants :
                  /\ reader.total = Len(history)
                  /\ reader.attacks = AttacksIn(history) ]_vars

====
